---------------------------- MODULE Spec2Model ----------------------------
(***************************************************************************)
(* Model of bark's receiver (src/src/receive.rs), of the threads that     *)
(* share it (src/src/main.rs), of the source (src/bark/src/stream.rs) and  *)
(* of the clock helpers (src/bark/src/time.rs).  Timestamps and            *)
(* SampleDurations are frame counts at SAMPLE_RATE, TimestampMicros are    *)
(* microseconds, Option<T> is a sequence of length 0 (None) or 1 (Some).   *)
(* The receiver holds its Timestamps and the pts and dts of a packet in    *)
(* the width of their integers, a u64 as its eight bytes.                  *)
(***************************************************************************)
EXTENDS Integers, Sequences, FiniteSets, TLC

VARIABLES
    stream,     \* Receiver.stream : Option<Stream>
    queue,      \* Receiver.queue  : VecDeque<QueueEntry>
    status,     \* Receiver.status : the stream-state tag of Status
    panicked,   \* a handler panicked (the thread is dead, the mutex poisoned)
    op,         \* history: the handler that ran last and its arguments
    out,        \* history: the writes the last fill made to its buffer
    slips,      \* number of fills whose resampler answer was not the exact one
    clock,      \* the playback instant of the last audio callback
    pre,        \* history: a summary of the receiver when the last handler was entered
    wall,       \* CLOCK_REALTIME  as a timespec [sec, nsec]
    mono,       \* CLOCK_BOOTTIME  as a timespec [sec, nsec]
    sessions,   \* the session ids generated so far, with their instants
    nows,       \* the results of the calls of time::now(), in call order
    rate_adj,   \* a RateAdjust driven on its own
    rate_ret,   \* what its last adjusted_rate call returned
    rate_op,    \* history: the RateAdjust method called last, the slew flag before
    agg_ring,   \* an Aggregate driven on its own
    agg_hist,   \* history: the values it has observed, in call order
    law,        \* the clocks of a time exchange: offset D, round trip r, exchanges done,
                \* the clock at the first, whether every packet fit D and r
    scen,       \* scenario S1: packets injected and fills called so far
    mutex,      \* the thread that holds the lock of Arc<Mutex<SharedState>>, "free" or "poisoned"
    thread,     \* where the network thread and the audio callback stand, and their locals
    left,       \* history: stream and queue as the last dropped guard left them
    source      \* a source: its packet header and builder, what it sent, its network loop;
                \* history: when the packet in the builder and the packets sent were begun

rvars == <<stream, queue, status, panicked, op, out, slips, clock, pre>>
cvars == <<wall, mono, sessions, nows>>
avars == <<rate_adj, rate_ret, rate_op>>
gvars == <<agg_ring, agg_hist>>
lvars == <<law>>
svars == <<scen>>
mvars == <<mutex, thread, left>>
ovars == <<source>>
xvars == <<gvars, lvars, svars, mvars, ovars>>
vars == <<rvars, cvars, avars, xvars>>

(***************************************************************************)
(* Bounds of the model.                                                    *)
(***************************************************************************)
max_seq_gap == 3
MaxSeq == 5
MaxObs == 1
MaxSlips == 1
MaxTick == 2
MaxSec == 1
MaxCalls == 2
MaxExtra == 2
MaxSwitch == 1
MaxTimeObs == 1
MaxSent == 4

(***************************************************************************)
(* Program constants.                                                      *)
(***************************************************************************)
SAMPLE_RATE == 48000
CHANNELS == 2
FRAMES_PER_PACKET == 160
AGG_LEN == 64
MICROS_PER_SEC == 1000000
NANOS_PER_SEC == 1000 * MICROS_PER_SEC
START_SLEW_US == 2000
STOP_SLEW_US == 100
SLEW_TARGET_US == 500000

SAMPLES_PER_PACKET == FRAMES_PER_PACKET * CHANNELS

None == <<>>
Some(x) == <<x>>
IsSome(o) == o # <<>>
Unwrap(o) == o[1]

Min(a, b) == IF a <= b THEN a ELSE b
Max(a, b) == IF a >= b THEN a ELSE b
Abs(a) == IF a < 0 THEN -a ELSE a
\* Rust's integer division truncates toward zero
DivT(a, b) == IF a >= 0 THEN a \div b ELSE -((-a) \div b)

RECURSIVE Gcd(_, _)
Gcd(a, b) == IF b = 0 THEN a ELSE Gcd(b, a % b)
\* SAMPLE_RATE / MICROS_PER_SEC and 1_000_000 / SLEW_TARGET_US in lowest
\* terms: a * b / c is computed as a * (b / g) / (c / g) with g = gcd(b, c),
\* which leaves the truncated quotient the code's wide integers give
\* unchanged and keeps the product inside the integers TLC can represent
RateNum == SAMPLE_RATE \div Gcd(SAMPLE_RATE, MICROS_PER_SEC)
RateDen == MICROS_PER_SEC \div Gcd(SAMPLE_RATE, MICROS_PER_SEC)
SlewNum == MICROS_PER_SEC \div Gcd(MICROS_PER_SEC, SLEW_TARGET_US)
SlewDen == SLEW_TARGET_US \div Gcd(MICROS_PER_SEC, SLEW_TARGET_US)

(***************************************************************************)
(* crate::time : Timestamp, SampleDuration, TimestampDelta, ClockDelta.    *)
(***************************************************************************)
ONE_PACKET == FRAMES_PER_PACKET
from_buffer_offset(offset) == offset \div CHANNELS
as_buffer_offset(frames) == frames * CHANNELS
from_micros_lossy(micros) == DivT(micros * RateNum, RateDen)
to_micros_lossy(ts) == DivT(ts * RateDen, RateNum)
from_std_duration_lossy(micros) == DivT(micros * RateNum, RateDen)
from_clock_delta_lossy(delta) == DivT(delta * RateNum, RateDen)
from_time_packet(packet) ==
    DivT(packet.stream_1 + packet.stream_3, 2) - packet.receive_2

(***************************************************************************)
(* Aggregate<T>: a ring of AGG_LEN samples.  `samples` holds the slots     *)
(* written so far (slot i of the array is samples[i + 1]); the slots never *)
(* written hold T::default() and are never read, since median sorts only   *)
(* samples[0..count] and count slots have been written.                    *)
(***************************************************************************)
AggregateNew == [samples |-> <<>>, count |-> 0, index |-> 0]

\* a write that pushes the value after the ones already held
write_sample_push(samples, index, value) == Append(samples, value)

\* self.samples[self.index] = value
write_sample(samples, index, value) ==
    IF index < Len(samples) THEN [samples EXCEPT ![index + 1] = value]
    ELSE Append(samples, value)

observe(agg, value) ==
    [samples |-> write_sample(agg.samples, agg.index, value),
     count |-> IF agg.count < AGG_LEN THEN agg.count + 1 ELSE agg.count,
     index |-> (agg.index + 1) % AGG_LEN]

\* samples[0..n] sorted: entry j is the value v with fewer than j samples
\* below it and at least j samples not above it
SortPrefix(samples, n) ==
    LET values == { samples[i] : i \in 1..n }
        below == [ v \in values |-> Cardinality({ i \in 1..n : samples[i] < v }) ]
        upto == [ v \in values |-> Cardinality({ i \in 1..n : samples[i] <= v }) ]
    IN  [ j \in 1..n |-> CHOOSE v \in values : below[v] < j /\ j <= upto[v] ]

\* samples.sort(); samples.get(self.count / 2).copied()
median(agg) ==
    LET sorted == SortPrefix(agg.samples, agg.count)
        k == agg.count \div 2
    IN  IF k < Len(sorted) THEN Some(sorted[k + 1]) ELSE None

(***************************************************************************)
(* RateAdjust                                                              *)
(***************************************************************************)
RateAdjustNew == [real_ts |-> None, play_ts |-> None, slew |-> FALSE]

set_timing(ra, real_ts, play_ts) ==
    [ra EXCEPT !.real_ts = Some(real_ts), !.play_ts = Some(play_ts)]

stop_slew_threshold == from_std_duration_lossy(STOP_SLEW_US)
start_slew_threshold == from_std_duration_lossy(START_SLEW_US)

below_stop(frame_offset) == Abs(frame_offset) < stop_slew_threshold

\* a dead zone that does not look at slew: no hysteresis
in_dead_zone_always(frame_offset, slew) == Abs(frame_offset) < start_slew_threshold
in_dead_zone(frame_offset, slew) == Abs(frame_offset) < start_slew_threshold /\ ~slew

clamp_rate(rate) ==
    Min(SAMPLE_RATE * 2, Max((SAMPLE_RATE * 98) \div 100, rate))

\* adjusted_rate returns the pair <<RateAdjust after the call, Option<SampleRate>>>
adjusted_rate(ra) ==
    IF ra.real_ts = None \/ ra.play_ts = None THEN <<ra, None>>
    ELSE LET frame_offset == Unwrap(ra.real_ts) - Unwrap(ra.play_ts)
         IN  IF below_stop(frame_offset)
             THEN <<[ra EXCEPT !.slew = FALSE], None>>
             ELSE IF in_dead_zone(frame_offset, ra.slew)
             THEN <<ra, None>>
             ELSE LET rate_offset == DivT(frame_offset * SlewNum, SlewDen)
                      rate == clamp_rate(SAMPLE_RATE + rate_offset)
                  IN  <<[ra EXCEPT !.slew = TRUE], Some(rate)>>

(***************************************************************************)
(* adjusted_rate in the width of its integers.  An i64 is kept as a sign   *)
(* and a magnitude [neg, mag], the magnitude as bytes, least significant   *)
(* first, so that frame_offset.as_frames() * 1_000_000 can leave 64 bits.  *)
(***************************************************************************)
BYTE == 2 ^ 8
I64_BYTES == 8

\* the bytes of a natural below 2^31
MagOf(n) ==
    [ i \in 1..I64_BYTES |->
        IF i <= 3 THEN (n \div BYTE ^ (i - 1)) % BYTE
        ELSE IF i = 4 THEN n \div BYTE ^ 3 ELSE 0 ]

I64(n) == [neg |-> n < 0, mag |-> MagOf(Abs(n))]

IsZero(mag) == \A i \in 1..Len(mag) : mag[i] = 0

\* the magnitude is below 2^24, and its value
Fits24(mag) == \A i \in 4..Len(mag) : mag[i] = 0
MagInt(mag) == mag[1] + mag[2] * BYTE + mag[3] * BYTE * BYTE
ToInt(x) == IF x.neg THEN -MagInt(x.mag) ELSE MagInt(x.mag)

\* mag * k for 0 <= k < 2^22, three bytes longer than mag
RECURSIVE MulCarry(_, _, _, _)
MulCarry(mag, k, i, carry) ==
    IF i > Len(mag)
    THEN <<carry % BYTE, (carry \div BYTE) % BYTE, carry \div (BYTE * BYTE)>>
    ELSE LET v == mag[i] * k + carry
         IN  <<v % BYTE>> \o MulCarry(mag, k, i + 1, v \div BYTE)

MagMul(mag, k) == MulCarry(mag, k, 1, 0)

\* mag / d for 0 < d < 2^22, by long division from the top byte
RECURSIVE DivFrom(_, _, _, _)
DivFrom(mag, d, i, rem) ==
    IF i = 0 THEN <<>>
    ELSE LET cur == rem * BYTE + mag[i]
         IN  DivFrom(mag, d, i - 1, cur % d) \o <<cur \div d>>

MagDiv(mag, d) == DivFrom(mag, d, Len(mag), 0)

\* mag + 1, without the carry out of the top byte
RECURSIVE IncCarry(_, _, _)
IncCarry(mag, i, carry) ==
    IF i > Len(mag) THEN <<>>
    ELSE LET v == mag[i] + carry
         IN  <<v % BYTE>> \o IncCarry(mag, i + 1, v \div BYTE)

MagInc(mag) == IncCarry(mag, 1, 1)

\* 2^64 - mag modulo 2^64: every byte complemented, plus one
MagNeg(mag) == MagInc([ i \in 1..Len(mag) |-> BYTE - 1 - mag[i] ])

Low(mag) == SubSeq(mag, 1, I64_BYTES)

\* i64::MAX and the magnitude of i64::MIN
MagI64Max == [ i \in 1..I64_BYTES |-> IF i = I64_BYTES THEN BYTE \div 2 - 1 ELSE BYTE - 1 ]
MagI64Min == [ i \in 1..I64_BYTES |-> IF i = I64_BYTES THEN BYTE \div 2 ELSE 0 ]

\* the product sign * mag is an i64
fits_i64(neg, mag) ==
    /\ \A i \in (I64_BYTES + 1)..Len(mag) : mag[i] = 0
    /\ \/ mag[I64_BYTES] < BYTE \div 2
       \/ neg /\ \A i \in 1..I64_BYTES : mag[i] = MagI64Min[i]

\* the i64 of a pattern of 64 bits (two's complement)
from_bits(bits) ==
    IF bits[I64_BYTES] < BYTE \div 2
    THEN [neg |-> FALSE, mag |-> bits]
    ELSE [neg |-> TRUE, mag |-> MagNeg(bits)]

\* x * k as the build without overflow checks computes it
wrapping_mul(x, k) ==
    LET low == Low(MagMul(x.mag, k))
    IN  from_bits(IF x.neg THEN MagNeg(low) ELSE low)

\* x / d, truncated toward zero
div_i64(x, d) ==
    LET m == MagDiv(x.mag, d)
    IN  [neg |-> x.neg /\ ~IsZero(m), mag |-> m]

\* frame_offset.abs() < threshold, for a threshold below 2^24
abs_less(frame_offset, threshold) ==
    Fits24(frame_offset.mag) /\ MagInt(frame_offset.mag) < threshold

\* the clamp of base_sample_rate + rate_offset: an offset of 2^24 or more
\* either way clamps as 2^24 does
clamp_i64(rate_offset) ==
    IF Fits24(rate_offset.mag) THEN clamp_rate(SAMPLE_RATE + ToInt(rate_offset))
    ELSE IF rate_offset.neg THEN clamp_rate(SAMPLE_RATE - BYTE ^ 3)
    ELSE clamp_rate(SAMPLE_RATE + BYTE ^ 3)

\* u32::try_from(rate) fails
try_from_u32_fails(rate) == rate < 0

\* adjusted_rate from frame_offset on: [slew, ret, panic], where panic names
\* the operation that panicked ("none" if the call returned)
adjusted_rate_i64(slew, frame_offset, overflow_checks) ==
    IF abs_less(frame_offset, stop_slew_threshold)
    THEN [slew |-> FALSE, ret |-> None, panic |-> "none"]
    ELSE IF abs_less(frame_offset, start_slew_threshold) /\ ~slew
    THEN [slew |-> slew, ret |-> None, panic |-> "none"]
    ELSE IF overflow_checks /\ ~fits_i64(frame_offset.neg, MagMul(frame_offset.mag, MICROS_PER_SEC))
    THEN [slew |-> slew, ret |-> None, panic |-> "multiply"]
    ELSE LET rate_offset == div_i64(wrapping_mul(frame_offset, MICROS_PER_SEC), SLEW_TARGET_US)
             rate == clamp_i64(rate_offset)
         IN  IF try_from_u32_fails(rate)
             THEN [slew |-> TRUE, ret |-> None, panic |-> "try_from"]
             ELSE [slew |-> TRUE, ret |-> Some(rate), panic |-> "none"]

(***************************************************************************)
(* The dts prediction of receive_audio in the width of its integers: a u64 *)
(* is kept as its eight bytes, an i64 as [neg, mag].                       *)
(***************************************************************************)
\* a + b over the bytes, the carry out of the top byte as one byte more
RECURSIVE AddCarry(_, _, _, _)
AddCarry(a, b, i, carry) ==
    IF i > I64_BYTES THEN <<carry>>
    ELSE LET v == a[i] + b[i] + carry
         IN  <<v % BYTE>> \o AddCarry(a, b, i + 1, v \div BYTE)

MagAdd(a, b) == AddCarry(a, b, 1, 0)

\* a < b, decided by the highest byte that differs
RECURSIVE LtFrom(_, _, _)
LtFrom(a, b, i) ==
    IF i = 0 THEN FALSE
    ELSE IF a[i] # b[i] THEN a[i] < b[i]
    ELSE LtFrom(a, b, i - 1)

MagLt(a, b) == LtFrom(a, b, I64_BYTES)

\* a - b modulo 2^64: the borrow out of the top byte is dropped
RECURSIVE SubBorrow(_, _, _, _)
SubBorrow(a, b, i, borrow) ==
    IF i > I64_BYTES THEN <<>>
    ELSE LET v == a[i] - b[i] - borrow
         IN  IF v < 0 THEN <<v + BYTE>> \o SubBorrow(a, b, i + 1, 1)
             ELSE <<v>> \o SubBorrow(a, b, i + 1, 0)

wrapping_sub(a, b) == SubBorrow(a, b, 1, 0)

\* -x leaves i64: x is i64::MIN
neg_overflows(x) == x.neg /\ x.mag = MagI64Min

\* -x as the build without overflow checks computes it
wrapping_neg(x) ==
    IF neg_overflows(x) THEN x
    ELSE [neg |-> ~x.neg /\ ~IsZero(x.mag), mag |-> x.mag]

\* u64::checked_add_signed: None when the sum leaves u64
checked_add_signed(a, rhs) ==
    IF rhs.neg
    THEN IF MagLt(a, rhs.mag) THEN None ELSE Some(wrapping_sub(a, rhs.mag))
    ELSE LET sum == MagAdd(a, rhs.mag)
         IN  IF sum[I64_BYTES + 1] # 0 THEN None ELSE Some(Low(sum))

\* a - b of two i64 leaves i64
sub_overflows(a, b) ==
    /\ a.neg # b.neg
    /\ ~fits_i64(a.neg, MagAdd(a.mag, b.mag))

(***************************************************************************)
(* crate::time on the receiver's Timestamps: a Timestamp, a                *)
(* TimestampMicros and the SampleDuration between two Timestamps are u64   *)
(* kept as eight bytes, a TimestampDelta is an i64 kept as [neg, mag].  A  *)
(* SampleDuration inside a packet or a buffer (consumed, ONE_PACKET, the   *)
(* duration of the buffer) and the delta of the clocks are integers.       *)
(***************************************************************************)
\* Timestamp::from_micros_lossy: micros * SAMPLE_RATE / 1_000_000
from_micros_lossy_u64(micros) == Low(MagDiv(MagMul(micros, RateNum), RateDen))

\* Timestamp::add(SampleDuration)
add(ts, frames) == Low(MagAdd(ts, MagOf(frames)))

\* Timestamp::adjust(TimestampDelta)
adjust(ts, delta) ==
    IF delta < 0 THEN add(ts, -delta) ELSE wrapping_sub(ts, MagOf(delta))

\* Timestamp::duration_since(Timestamp), called on an earlier Timestamp
duration_since(ts, earlier) == wrapping_sub(ts, earlier)

\* Timestamp::delta(Timestamp): the signed distance of two Timestamps
delta(ts, other) ==
    IF MagLt(ts, other) THEN [neg |-> TRUE, mag |-> wrapping_sub(other, ts)]
    ELSE [neg |-> FALSE, mag |-> wrapping_sub(ts, other)]

\* a SampleDuration of eight bytes is below `frames`, and its frames when it
\* is below 2^24
less_frames(duration, frames) == Fits24(duration) /\ MagInt(duration) < frames
as_frames(duration) == MagInt(duration)

(***************************************************************************)
(* Stream and QueueEntry                                                   *)
(***************************************************************************)
start_from_packet(packet) ==
    [sid |-> packet.sid,
     start_seq |-> packet.seq,
     sync |-> FALSE,
     resampler |-> SAMPLE_RATE,
     rate_adjust |-> RateAdjustNew,
     latency |-> AggregateNew,
     clock_delta |-> AggregateNew]

\* an adjustment that passes the source's pts on while there is no median
adjust_pts_or_raw(s, pts) ==
    LET m == median(s.clock_delta)
    IN  IF m = None THEN Some(pts)
        ELSE Some(adjust(pts, from_clock_delta_lossy(Unwrap(m))))

adjust_pts(s, pts) ==
    LET m == median(s.clock_delta)
    IN  IF m = None THEN None
        ELSE Some(adjust(pts, from_clock_delta_lossy(Unwrap(m))))

network_latency(s) == median(s.latency)

\* a new slot that counts as half played
HalfSlot(seq) == [seq |-> seq, pts |-> None, consumed |-> ONE_PACKET \div 2, packet |-> None]
EmptySlot(seq) == [seq |-> seq, pts |-> None, consumed |-> 0, packet |-> None]

\* the buffer a slot plays: the packet's payload, or silence (0)
as_full_buffer(entry) ==
    IF entry.packet = None THEN 0 ELSE Unwrap(entry.packet).payload

Front(q) == q[1]
Back(q) == q[Len(q)]

(***************************************************************************)
(* Receiver::receive_time                                                  *)
(***************************************************************************)
\* a latency of the whole round trip
whole_rtt(rtt_usec) == rtt_usec

\* Duration::from_micros(rtt_usec / 2)
half_rtt(rtt_usec) == rtt_usec \div 2

receive_time(self, packet) ==
    IF self.stream = None THEN self
    ELSE LET s == Unwrap(self.stream)
         IN  IF s.sid # packet.sid THEN self
             ELSE IF packet.stream_3 < packet.stream_1 THEN self
             ELSE LET rtt_usec == packet.stream_3 - packet.stream_1
                      lat == observe(s.latency, half_rtt(rtt_usec))
                      cd == observe(s.clock_delta, from_time_packet(packet))
                  IN  [self EXCEPT !.stream =
                          Some([s EXCEPT !.latency = lat, !.clock_delta = cd])]

(***************************************************************************)
(* Receiver::prepare_stream                                                *)
(***************************************************************************)
\* A seq is a u64.  It is held by the i64 of the same 64 bits (seq as i64):
\* v itself below 2^63, v - 2^64 from 2^63 on, so that the seqs at the top
\* of u64 are -1 (2^64 - 1), -2, ...; a sum of the model is then the
\* wrapping sum of the code.  a < b and a <= b of two u64:
u64_lt(a, b) == IF (a < 0) = (b < 0) THEN a < b ELSE b < 0
u64_le(a, b) == a = b \/ u64_lt(a, b)

seq_before_start(s, packet) == u64_lt(packet.seq, s.start_seq)
\* the front test with a strict comparison
seq_before_front(front, packet) == u64_lt(packet.seq, front.seq)

seq_not_after_front(front, packet) == u64_le(packet.seq, front.seq)

\* back.seq + max_seq_gap leaves u64: a panic with overflow checks
seq_gap_overflows(back) == back.seq < 0 /\ back.seq + max_seq_gap >= 0

\* the gap test with a strict comparison
seq_too_far_strict(back, packet) == u64_lt(back.seq + max_seq_gap, packet.seq)
\* back.seq + max_seq_gap <= packet.seq, the sum wrapped
seq_too_far(back, packet) == u64_le(back.seq + max_seq_gap, packet.seq)

\* a switch that renames the stream and keeps what it had gathered
reset_stream_sid_only(self, packet) ==
    [self EXCEPT !.stream = Some([Unwrap(self.stream) EXCEPT !.sid = packet.sid,
                                                             !.start_seq = packet.seq])]

reset_stream(self, packet) ==
    [self EXCEPT !.stream = Some(start_from_packet(packet)),
                 !.status = "Unsynced",
                 !.queue = <<>>]

\* a takeover by every other sid
sid_order_any(s, packet) ==
    IF packet.sid # s.sid THEN "new" ELSE "current"

\* packet.sid.0 < stream.sid.0: a previous stream; > : a new stream
sid_order(s, packet) ==
    IF packet.sid < s.sid THEN "previous"
    ELSE IF packet.sid > s.sid THEN "new"
    ELSE "current"

\* the pair <<accepted, Receiver after the call>>; a panic leaves the
\* Receiver as it was, with `panicked` set
prepare_stream(self, packet, overflow_checks) ==
    IF self.stream # None
    THEN LET s == Unwrap(self.stream)
         IN  IF sid_order(s, packet) = "previous" THEN <<FALSE, self>>
             ELSE IF sid_order(s, packet) = "new" THEN <<TRUE, reset_stream(self, packet)>>
             ELSE IF seq_before_start(s, packet) THEN <<FALSE, self>>
             ELSE IF self.queue # <<>> /\ seq_not_after_front(Front(self.queue), packet)
             THEN <<FALSE, self>>
             ELSE IF self.queue # <<>> /\ overflow_checks
                                      /\ seq_gap_overflows(Back(self.queue))
             THEN <<FALSE, [self EXCEPT !.panicked = TRUE]>>
             ELSE IF self.queue # <<>> /\ seq_too_far(Back(self.queue), packet)
             THEN <<TRUE, reset_stream(self, packet)>>
             ELSE <<TRUE, self>>
    ELSE <<TRUE, [self EXCEPT !.stream = Some(start_from_packet(packet)),
                              !.status = "Unsynced"]>>

(***************************************************************************)
(* Receiver::receive_audio                                                 *)
(***************************************************************************)
\* (now.0 - latency_usec).checked_add_signed(-delta_usec): None where the
\* code panics, which is where the subtraction or the negation overflows in
\* a build with overflow checks (without them both wrap) and where the
\* checked addition leaves u64 (the unwrap)
predict_dts(now, latency_usec, delta_usec, overflow_checks) ==
    IF overflow_checks /\ (MagLt(now, latency_usec) \/ neg_overflows(delta_usec))
    THEN None
    ELSE checked_add_signed(wrapping_sub(now, latency_usec), wrapping_neg(delta_usec))

\* predict_dts as i64 - packet.dts.0 as i64 leaves i64
predict_diff_overflows(predicted, dts) ==
    sub_overflows(from_bits(predicted), from_bits(dts))

\* the dts prediction panics
predict_dts_panics(now, latency_usec, delta_usec, dts, overflow_checks) ==
    LET predicted == predict_dts(now, latency_usec, delta_usec, overflow_checks)
    IN  \/ predicted = None
        \/ overflow_checks /\ predict_diff_overflows(Unwrap(predicted), dts)

\* the slots of (back.seq + 1)..=packet.seq
RECURSIVE EmptySlots(_, _)
EmptySlots(first, last) ==
    IF u64_lt(last, first) THEN <<>>
    ELSE IF first = last THEN <<EmptySlot(first)>>
    ELSE <<EmptySlot(first)>> \o EmptySlots(first + 1, last)

\* an extension that pushes the packet's slot alone, without the slots between
extend_queue_no_gap(q, packet) ==
    IF q # <<>>
    THEN IF u64_lt(Back(q).seq, packet.seq) THEN Append(q, EmptySlot(packet.seq)) ELSE q
    ELSE <<EmptySlot(packet.seq)>>

\* expand queue to make space for new packet
extend_queue(q, packet) ==
    IF q # <<>>
    THEN IF u64_lt(Back(q).seq, packet.seq)
         THEN q \o EmptySlots(Back(q).seq + 1, packet.seq)
         ELSE q
    ELSE <<EmptySlot(packet.seq)>>

idx_for_packet(q, packet) == packet.seq - Front(q).seq

\* a slot that keeps the first packet it got
fill_slot_once(slot, s, packet) ==
    IF slot.packet # None THEN slot
    ELSE [slot EXCEPT !.packet = Some(packet),
                      !.pts = adjust_pts(s, from_micros_lossy_u64(packet.pts))]

\* slot.packet = Some(*packet); slot.pts = stream.adjust_pts(...)
fill_slot(slot, s, packet) ==
    [slot EXCEPT !.packet = Some(packet),
                 !.pts = adjust_pts(s, from_micros_lossy_u64(packet.pts))]

\* a flags test that lets every packet through
unknown_flags_never(packet) == FALSE

\* if packet.flags != 0: unknown flags in packet, ignoring entire packet
unknown_flags(packet) == packet.flags # 0

\* receive_audio up to the slot made for the packet: <<"store", Receiver>>
\* when the packet is to be written to its slot, <<"return", Receiver>>
\* when the handler has returned or panicked
admit_audio(self, packet, now, overflow_checks) ==
    IF unknown_flags(packet) THEN <<"return", self>>
    ELSE LET prep == prepare_stream(self, packet, overflow_checks)
             r == prep[2]
         IN  IF ~prep[1] THEN <<"return", r>>
             ELSE LET s == Unwrap(r.stream)
                      lat == network_latency(s)
                      cd == median(s.clock_delta)
                  IN  IF lat # None /\ cd # None
                         /\ predict_dts_panics(now, MagOf(Unwrap(lat)), I64(Unwrap(cd)),
                                               packet.dts, overflow_checks)
                      THEN <<"return", [r EXCEPT !.panicked = TRUE]>>
                      ELSE <<"store", [r EXCEPT !.queue = extend_queue(r.queue, packet)]>>

\* the write of the packet to its slot: queue.get_mut(idx).unwrap() and the
\* assertion on the slot's seq panic when the slot is not there
store_audio(self, packet) ==
    LET q == self.queue
        idx == IF q = <<>> THEN -1 ELSE idx_for_packet(q, packet)
    IN  IF idx < 0 \/ idx + 1 > Len(q) \/ q[idx + 1].seq # packet.seq
        THEN [self EXCEPT !.panicked = TRUE]
        ELSE [self EXCEPT !.queue =
                [q EXCEPT ![idx + 1] = fill_slot(q[idx + 1], Unwrap(self.stream), packet)]]

receive_audio(self, packet, now, overflow_checks) ==
    LET admitted == admit_audio(self, packet, now, overflow_checks)
    IN  IF admitted[1] = "store" THEN store_audio(admitted[2], packet)
        ELSE admitted[2]

(***************************************************************************)
(* Resampler::process_interleaved on `frames` input frames and room for as *)
(* many output frames.  What the resampler answers is an input of the      *)
(* model: an error, or the frames of the input it left unread and the      *)
(* frames of the output it left unwritten.  None is Err, and               *)
(* Some(<<input_read, output_written>>) is Ok(ProcessResult).              *)
(***************************************************************************)
Exact == [ok |-> TRUE, unread |-> 0, unwritten |-> 0]

process_interleaved(answer, frames) ==
    IF ~answer.ok THEN None
    ELSE Some(<<Max(frames - answer.unread, 0), Max(frames - answer.unwritten, 0)>>)

(***************************************************************************)
(* Receiver::fill_stream_buffer.  A write to the buffer is a segment       *)
(* [off, len, buf, seq, pts]: `len` samples from sample offset `off`,      *)
(* taken from buffer `buf` (0: zeros) of the slot `seq` (0: a zero fill)   *)
(* whose pts was `pts`.                                                    *)
(***************************************************************************)
ZeroFill(off, len) == [off |-> off, len |-> len, buf |-> 0, seq |-> 0, pts |-> None]

\* data.fill(0f32) on the slice that starts at sample `pos`
fill_zero(pos, len) == <<ZeroFill(pos, len - pos)>>

\* data[0..zero_count].fill(0f32)
fill_leading_zero(zero_count) ==
    IF zero_count = 0 THEN <<>> ELSE <<ZeroFill(0, zero_count)>>

\* pts > front_pts
is_late(pts, front_pts) == MagLt(front_pts, pts)
\* a skip only of what is late by more than a packet
late_skip_after(late) == ~less_frames(late, ONE_PACKET + 1)
\* late >= SampleDuration::ONE_PACKET
late_skip(late) == ~less_frames(late, ONE_PACKET)
\* early >= SampleDuration::from_buffer_offset(data.len())
early_silence(early, len) == ~less_frames(early, from_buffer_offset(len))

\* the sync loop: [queue, done (the fill returned), synced, pos, out]
RECURSIVE sync_loop(_, _, _)
sync_loop(q, len, pts) ==
    IF q = <<>>
    THEN [queue |-> q, done |-> TRUE, synced |-> FALSE, pos |-> len, out |-> fill_zero(0, len)]
    ELSE LET front == Front(q)
         IN  IF front.pts = None
             THEN [queue |-> Tail(q), done |-> TRUE, synced |-> FALSE, pos |-> len,
                   out |-> fill_zero(0, len)]
             ELSE LET front_pts == Unwrap(front.pts)
                  IN  IF is_late(pts, front_pts)
                      THEN LET late == duration_since(pts, front_pts)
                           IN  IF late_skip(late)
                               THEN sync_loop(Tail(q), len, pts)
                               ELSE [queue |-> [q EXCEPT ![1].consumed = as_frames(late)],
                                     done |-> FALSE, synced |-> TRUE, pos |-> 0, out |-> <<>>]
                      ELSE LET early == duration_since(front_pts, pts)
                           IN  IF early_silence(early, len)
                               THEN [queue |-> q, done |-> TRUE, synced |-> FALSE, pos |-> len,
                                     out |-> fill_zero(0, len)]
                               ELSE [queue |-> q, done |-> FALSE, synced |-> TRUE,
                                     pos |-> as_buffer_offset(as_frames(early)),
                                     out |-> fill_leading_zero(as_buffer_offset(as_frames(early)))]

fully_consumed(front) == front.consumed = ONE_PACKET

\* the copy loop: [queue, miss, panicked, stream_ts, out].  `answer` is what
\* the resampler answers to the next call, every call after it is answered
\* in full; .expect("resample error!") panics on an error, with the queue
\* and the buffer as the calls before it left them
RECURSIVE copy_loop(_, _, _, _, _, _)
copy_loop(q, pos, len, answer, stream_ts, segs) ==
    IF pos >= len
    THEN [queue |-> q, miss |-> FALSE, panicked |-> FALSE, stream_ts |-> stream_ts,
          out |-> segs]
    ELSE IF q = <<>>
    THEN [queue |-> q, miss |-> TRUE, panicked |-> FALSE, stream_ts |-> stream_ts,
          out |-> segs \o fill_zero(pos, len)]
    ELSE LET front == Front(q)
             buffer_offset == as_buffer_offset(front.consumed)
             buffer_remaining == SAMPLES_PER_PACKET - buffer_offset
             copy_count == Min(len - pos, buffer_remaining)
             result == process_interleaved(answer, from_buffer_offset(copy_count))
         IN  IF result = None
             THEN [queue |-> q, miss |-> FALSE, panicked |-> TRUE, stream_ts |-> stream_ts,
                   out |-> segs]
             ELSE LET input_read == Unwrap(result)[1]
                      output_written == Unwrap(result)[2]
                      written == as_buffer_offset(output_written)
                      consumed == front.consumed + input_read
                      front2 == [front EXCEPT !.consumed = consumed]
                      ts == IF front.pts = None THEN None
                            ELSE Some(add(Unwrap(front.pts), consumed))
                      seg == [off |-> pos, len |-> written, buf |-> as_full_buffer(front),
                              seq |-> front.seq, pts |-> front.pts]
                      q2 == IF fully_consumed(front2) THEN Tail(q) ELSE <<front2>> \o Tail(q)
                  IN  copy_loop(q2, pos + written, len, Exact, ts,
                                IF written = 0 THEN segs ELSE Append(segs, seg))

\* rate control after the copy loop: set_timing, adjusted_rate on the i64
\* of real_ts - play_ts, set_input_rate and the status; a panic of
\* adjusted_rate leaves the Receiver as adjusted_rate had it
rate_control(self, real_ts_after_fill, stream_ts, overflow_checks) ==
    LET s == Unwrap(self.stream)
        timed == set_timing(s.rate_adjust, real_ts_after_fill, stream_ts)
        r == adjusted_rate_i64(timed.slew, delta(real_ts_after_fill, stream_ts),
                               overflow_checks)
        ra == [timed EXCEPT !.slew = r.slew]
        rate == IF r.ret = None THEN s.resampler ELSE Unwrap(r.ret)
    IN  IF r.panic # "none"
        THEN [self EXCEPT !.stream = Some([s EXCEPT !.rate_adjust = ra]),
                          !.panicked = TRUE]
        ELSE [self EXCEPT !.stream = Some([s EXCEPT !.rate_adjust = ra, !.resampler = rate]),
                          !.status = IF ra.slew THEN "Slew" ELSE "Sync"]

\* assert!(data.len() % 2 == 0): complete frames only
complete_frames(len) == len % CHANNELS = 0

\* an underrun that also sends the stream back to the sync phase
set_miss_unsync(self) ==
    [self EXCEPT !.status = "Miss",
                 !.stream = Some([Unwrap(self.stream) EXCEPT !.sync = FALSE])]

\* self.status.set_stream(StreamStatus::Miss)
set_miss(self) == [self EXCEPT !.status = "Miss"]

\* the pair <<Receiver after the call, the writes to the buffer>>
fill_stream_buffer(self, len, pts, answer, overflow_checks) ==
    IF ~complete_frames(len) THEN <<[self EXCEPT !.panicked = TRUE], <<>>>>
    ELSE IF self.stream = None THEN <<self, fill_zero(0, len)>>
    ELSE LET s == Unwrap(self.stream)
             real_ts_after_fill == add(pts, from_buffer_offset(len))
             sy == IF ~s.sync THEN sync_loop(self.queue, len, pts)
                   ELSE [queue |-> self.queue, done |-> FALSE, synced |-> FALSE,
                         pos |-> 0, out |-> <<>>]
             s1 == IF sy.synced THEN [s EXCEPT !.sync = TRUE] ELSE s
             st1 == IF sy.synced THEN "Sync" ELSE self.status
             self1 == [self EXCEPT !.stream = Some(s1), !.status = st1, !.queue = sy.queue]
         IN  IF sy.done THEN <<self1, sy.out>>
             ELSE LET cp == copy_loop(sy.queue, sy.pos, len, answer, None, sy.out)
                      self2 == [self1 EXCEPT !.queue = cp.queue]
                  IN  IF cp.panicked THEN <<[self2 EXCEPT !.panicked = TRUE], cp.out>>
                      ELSE IF cp.miss THEN <<set_miss(self2), cp.out>>
                      ELSE IF cp.stream_ts # None
                      THEN <<rate_control(self2, real_ts_after_fill, Unwrap(cp.stream_ts),
                                          overflow_checks), cp.out>>
                      ELSE <<self2, cp.out>>

(***************************************************************************)
(* time::now and generate_session_id, on the timespec clock_gettime gives  *)
(***************************************************************************)
now(timespec) == timespec.nsec \div 1000
generate_session_id(timespec) == timespec.nsec \div 1000

\* the instant of a timespec in microseconds since the clock's origin
InstantMicros(timespec) == timespec.sec * MICROS_PER_SEC + timespec.nsec \div 1000

(***************************************************************************)
(* stream::run: the input callback that packs captured frames into audio   *)
(* packets, and the network loop of the source.                            *)
(***************************************************************************)
\* a header that keeps its seq from one packet to the next
same_seq(seq) == seq

\* audio_header.seq += 1
next_seq(seq) == seq + 1

\* the while loop of the input callback on `data` frames: the header, the
\* frames held by the packet buffer, the headers broadcast, and whether a
\* broadcast failed (the callback panicked there)
RECURSIVE packetize(_, _, _, _, _, _)
packetize(audio_header, length, data, timestamp, sent, broadcast_ok) ==
    IF data = 0
    THEN [audio_header |-> audio_header, length |-> length, sent |-> sent, panicked |-> FALSE]
    ELSE LET written == Min(data, ONE_PACKET - length)
             ts == timestamp + written
             len == length + written
         IN  IF len # ONE_PACKET
             THEN packetize(audio_header, len, data - written, ts, sent, broadcast_ok)
             ELSE IF ~broadcast_ok
             THEN [audio_header |-> audio_header, length |-> 0, sent |-> sent,
                   panicked |-> TRUE]
             ELSE packetize([seq |-> next_seq(audio_header.seq), pts |-> to_micros_lossy(ts)],
                            0, data - written, ts, Append(sent, audio_header),
                            broadcast_ok)

\* a callback end that leaves the pending pts as it is
keep_pts(length, pts) == pts

\* if audio_buffer.length() == SampleDuration::zero() { audio_header.pts.0 = 0 }
reset_pts(length, pts) == IF length = 0 THEN 0 ELSE pts

\* the input callback
input_callback(src, data, now_usec, delay, broadcast_ok) ==
    LET timestamp == from_micros_lossy(now_usec) + delay
        header == IF src.audio_header.pts = 0
                  THEN [src.audio_header EXCEPT !.pts = to_micros_lossy(timestamp)]
                  ELSE src.audio_header
        r == packetize(header, src.length, data, timestamp, src.sent, broadcast_ok)
        pts == IF r.panicked THEN r.audio_header.pts
               ELSE reset_pts(r.length, r.audio_header.pts)
    IN  [src EXCEPT !.audio_header = [r.audio_header EXCEPT !.pts = pts],
                    !.length = r.length,
                    !.sent = r.sent,
                    !.audio = IF r.panicked THEN "panicked" ELSE "running"]

\* TimePacket::phase, from the fields that are stamped
phase(data) ==
    IF data.stream_1 # 0 /\ data.receive_2 = 0 /\ data.stream_3 = 0 THEN Some("Broadcast")
    ELSE IF data.stream_1 # 0 /\ data.receive_2 # 0 /\ data.stream_3 = 0
    THEN Some("ReceiverReply")
    ELSE IF data.stream_1 # 0 /\ data.receive_2 # 0 /\ data.stream_3 # 0
    THEN Some("StreamReply")
    ELSE None

\* a takeover test that another packet of the session itself passes
takes_over_or_same(packet_sid, sid) == packet_sid >= sid

\* audio.header().sid > sid
takes_over(packet_sid, sid) == packet_sid > sid

\* a reply stamped in the receiver's field
stamp_receive_2(packet, now_usec) == [packet EXCEPT !.receive_2 = now_usec]

\* time.data_mut().stream_3 = time::now()
stamp_stream_3(packet, now_usec) == [packet EXCEPT !.stream_3 = now_usec]

\* one turn of the network loop on what recv_from returns (None: an error;
\* else the packet, come from `peer`); reply is what it sent, and to whom
network_loop(src, received, peer, now_usec, send_ok) ==
    IF received = None
    THEN [src EXCEPT !.network = "panicked", !.reply = None]
    ELSE LET packet == Unwrap(received)
         IN  IF packet.kind = "Audio"
             THEN IF takes_over(packet.sid, src.sid)
                  THEN [src EXCEPT !.network = "returned", !.reply = None]
                  ELSE [src EXCEPT !.reply = None]
             ELSE IF packet.kind = "Time"
             THEN IF packet.sid # src.sid THEN [src EXCEPT !.reply = None]
                  ELSE IF phase(packet) = Some("ReceiverReply")
                  THEN IF send_ok
                       THEN [src EXCEPT !.reply =
                               Some([packet |-> stamp_stream_3(packet, now_usec),
                                     to |-> peer])]
                       ELSE [src EXCEPT !.network = "panicked", !.reply = None]
                  ELSE [src EXCEPT !.reply = None]
             ELSE IF packet.kind = "StatsRequest"
             THEN IF send_ok
                  THEN [src EXCEPT !.reply =
                          Some([packet |-> [kind |-> "StatsReply", sid |-> src.sid],
                                to |-> peer])]
                  ELSE [src EXCEPT !.reply = None]
             ELSE [src EXCEPT !.reply = None]

(***************************************************************************)
(* Inputs                                                                  *)
(***************************************************************************)
Sids == {1, 2}
\* the source's timestamp at its first packet, and half a packet: the step
\* between playback instants and the larger of the clock deltas
SourceT0 == 30 * ONE_PACKET
DelayT0 == ONE_PACKET \div 2
\* the pts the source stamps on packet `seq`: frames_to_micros(T0 + (seq-1) packets)
SourcePts(seq) == to_micros_lossy(SourceT0 + (seq - 1) * ONE_PACKET)
Payload(sid, seq) == 10 * sid + seq

AudioPacket(flags, sid, seq) ==
    [flags |-> flags, sid |-> sid, seq |-> seq, pts |-> MagOf(SourcePts(seq)),
     dts |-> MagOf(SourcePts(seq)), payload |-> Payload(sid, seq)]

\* the packets of the sources, and one packet with a flag set
AudioPackets ==
    { AudioPacket(0, sid, seq) : sid \in Sids, seq \in 1..MaxSeq }
        \cup { AudioPacket(1, 2, MaxSeq) }

\* the last seqs of u64, 2^64 - max_seq_gap to 2^64 - 1, and the packets of
\* a stream that runs on them; a packet stamped with a dts of 2^63; with
\* them the first packets of the stream that begins at seq 1
TopSeqs == { -k : k \in 1..max_seq_gap }
TopPackets == { AudioPacket(0, 1, seq) : seq \in TopSeqs }
FarDtsPackets == { [AudioPacket(0, 1, 2) EXCEPT !.dts = MagI64Min] }
WidePackets ==
    TopPackets \cup FarDtsPackets \cup { AudioPacket(0, 1, seq) : seq \in 1..2 }

\* a pts of 10^15 microseconds, some thirty years from the clock's origin,
\* on the packet that follows the first two of a stream, and these two
FarMicros == Low(MagMul(MagOf(MICROS_PER_SEC * 1000), MICROS_PER_SEC))
FarPtsPackets == { [AudioPacket(0, 1, 3) EXCEPT !.pts = FarMicros] }
FarPackets == FarPtsPackets \cup { AudioPacket(0, 1, seq) : seq \in 1..2 }

\* TimestampMicros::now() in receive_audio: shortly and long after the
\* clock's origin
Nows == {50, 200000}
HighNow == CHOOSE t \in Nows : \A u \in Nows : u <= t

\* <<stream_1, receive_2, stream_3>>: clock delta 0, clock delta 1667 us
\* (80 frames), stream_3 before stream_1, stream_3 not yet stamped
TimeStamps ==
    { <<50000, 50100, 50200>>, <<50000, 48433, 50200>>,
      <<50200, 50100, 50000>>, <<50000, 50100, 0>> }

TimePackets ==
    { [sid |-> sid, stream_1 |-> t[1], receive_2 |-> t[2], stream_3 |-> t[3]] :
        sid \in Sids, t \in TimeStamps }

\* the source's session id, with a session before it and one after it
SourceSid == 2
PeerSids == {SourceSid - 1, SourceSid, SourceSid + 1}

BufLens == {SAMPLES_PER_PACKET, SAMPLES_PER_PACKET + FRAMES_PER_PACKET}

\* what the resampler leaves of its input or of its output: nothing, one
\* frame, all of it; its answers: Ok with any two of these, and an error
Shortfalls == {0, 1, ONE_PACKET}
ResampleError == [ok |-> FALSE, unread |-> 0, unwritten |-> 0]
ResampleAnswers ==
    { [ok |-> TRUE, unread |-> i, unwritten |-> o] : i, o \in Shortfalls }
        \cup { ResampleError }
FillPts == { SourceT0 - DelayT0 + k * DelayT0 : k \in 0..MaxTick }

(***************************************************************************)
(* The receiver: the network thread's handlers and the audio callback,     *)
(* each run under the Receiver mutex.                                      *)
(***************************************************************************)
Self == [stream |-> stream, queue |-> queue, status |-> status, panicked |-> panicked]

SetSelf(r) ==
    /\ stream' = r.stream
    /\ queue' = r.queue
    /\ status' = r.status
    /\ panicked' = r.panicked

\* what the history keeps of the receiver a handler was called on (sid and
\* the seqs are 0 where there is no stream or no slot)
Summary ==
    [sid |-> IF stream = None THEN 0 ELSE Unwrap(stream).sid,
     start_seq |-> IF stream = None THEN 0 ELSE Unwrap(stream).start_seq,
     sync |-> stream # None /\ Unwrap(stream).sync,
     qlen |-> Len(queue),
     front |-> IF queue = <<>> THEN 0 ELSE Front(queue).seq,
     back |-> IF queue = <<>> THEN 0 ELSE Back(queue).seq]

\* the stream has the medians the dts prediction reads (only then does the
\* handler's reading of the clock matter)
PredictsDts ==
    /\ stream # None
    /\ network_latency(Unwrap(stream)) # None
    /\ median(Unwrap(stream).clock_delta) # None

\* the build of the receiver shows in the handling of the packet: the dts
\* prediction runs with a clock below the latency or on a dts that is not
\* an i64, or the gap test runs on a back at the top of u64
ChecksMatter(packet, t) ==
    /\ packet.flags = 0
    /\ \/ PredictsDts /\ (t # HighNow \/ packet \in FarDtsPackets)
       \/ queue # <<>> /\ seq_gap_overflows(Back(queue))

\* the queue holds a slot whose pts is 2^24 frames or more: without one,
\* real_ts - play_ts of a fill is far from the offsets whose product with
\* 1_000_000 leaves i64, and both builds do the same
FarSlot == \E i \in 1..Len(queue) : queue[i].pts # None /\ ~Fits24(Unwrap(queue[i].pts))

ObsCount == IF stream = None THEN 0 ELSE Unwrap(stream).latency.count

\* receive_audio on a packet of `packets`
ReceiveAudioOf(packets) ==
    /\ ~panicked
    /\ \E packet \in packets, t \in Nows, overflow_checks \in BOOLEAN :
        /\ ~overflow_checks => ChecksMatter(packet, t)
        /\ (~PredictsDts \/ packet.flags # 0) => t = HighNow
        /\ LET r == receive_audio(Self, packet, MagOf(t), overflow_checks)
           IN  SetSelf(r)
        /\ op' = [name |-> "receive_audio", packet |-> packet]
    /\ out' = <<>>
    /\ pre' = Summary
    /\ UNCHANGED <<slips, clock, cvars, avars, xvars>>

ReceiveAudio == ReceiveAudioOf(AudioPackets)

\* receive_audio on the packets at the ends of u64
ReceiveAudioWide == ReceiveAudioOf(WidePackets)

\* receive_audio on a stream whose third packet is stamped far ahead
ReceiveAudioFar == ReceiveAudioOf(FarPackets)

ReceiveTime ==
    /\ ~panicked
    /\ ObsCount < MaxObs
    /\ \E packet \in TimePackets :
        /\ LET r == receive_time(Self, packet)
           IN  SetSelf(r)
        /\ op' = [name |-> "receive_time", packet |-> packet]
    /\ out' = <<>>
    /\ pre' = Summary
    /\ UNCHANGED <<slips, clock, cvars, avars, xvars>>

\* the audio callback, the resampler answering with one of `answers`:
\* playback instants only move forward
FillStreamBufferOf(answers) ==
    /\ ~panicked
    /\ \E len \in BufLens, pts \in FillPts, answer \in answers, overflow_checks \in BOOLEAN :
        /\ answer # Exact => slips < MaxSlips
        /\ ~overflow_checks => FarSlot
        /\ pts > clock
        /\ clock' = pts
        /\ LET r == fill_stream_buffer(Self, len, MagOf(pts), answer, overflow_checks)
           IN  /\ SetSelf(r[1])
               /\ out' = r[2]
        /\ slips' = IF answer # Exact THEN slips + 1 ELSE slips
        /\ op' = [name |-> "fill_stream_buffer", len |-> len, pts |-> pts,
                  slip |-> answer # Exact, answer |-> answer]
    /\ pre' = Summary
    /\ UNCHANGED <<cvars, avars, xvars>>

\* the audio callback on a resampler that reads and writes all it is given
FillStreamBuffer == FillStreamBufferOf({Exact})

\* the audio callback on a resampler that answers as it likes
FillStreamBufferAny == FillStreamBufferOf(ResampleAnswers)

ClockInit ==
    /\ wall = [sec |-> 0, nsec |-> 0]
    /\ mono = [sec |-> 0, nsec |-> 0]
    /\ sessions = <<>>
    /\ nows = <<>>

ReceiverInit ==
    /\ stream = None
    /\ queue = <<>>
    /\ status = "Unsynced"
    /\ panicked = FALSE
    /\ op = [name |-> "new"]
    /\ out = <<>>
    /\ slips = 0
    /\ clock = 0
    /\ pre = [sid |-> 0, start_seq |-> 0, sync |-> FALSE, qlen |-> 0, front |-> 0, back |-> 0]

RateInit ==
    /\ rate_adj = RateAdjustNew
    /\ rate_ret = None
    /\ rate_op = [name |-> "new", slew |-> FALSE]

AggInit ==
    /\ agg_ring = AggregateNew
    /\ agg_hist = <<>>

LawInit == law = [started |-> FALSE, D |-> 0, r |-> 0, n |-> 0, t0 |-> 0, lawful |-> TRUE]

ScenInit == scen = [injected |-> 0, fills |-> 0]

\* run_receive after the output stream is built and the socket is bound
LockInit ==
    /\ mutex = "free"
    /\ thread = [network |-> [pc |-> "recv", packet |-> None,
                              now |-> HighNow, overflow_checks |-> TRUE],
                 audio |-> [pc |-> "pts", pts |-> None]]
    /\ left = <<None, <<>>>>

\* stream::run before the first input callback and the first packet received
SourceInit ==
    source = [sid |-> SourceSid,
              audio_header |-> [seq |-> 1, pts |-> 0],
              length |-> 0,
              sent |-> <<>>,
              begun |-> None,
              stamps |-> <<>>,
              callbacks |-> 0,
              audio |-> "running",
              network |-> "running",
              last |-> None,
              reply |-> None]

Init == ReceiverInit /\ ClockInit /\ RateInit /\ AggInit /\ LawInit /\ ScenInit /\ LockInit /\ SourceInit

Next == ReceiveAudio \/ ReceiveTime \/ FillStreamBuffer

Spec == Init /\ [][Next]_vars

\* the receiver on a stream at the top of u64 and on a dts that is no i64
NextWide == ReceiveAudioWide \/ ReceiveTime \/ FillStreamBuffer

SpecWide == Init /\ [][NextWide]_vars

\* the receiver on a packet stamped far ahead, with a resampler that falls
\* short or fails
NextFill == ReceiveAudioFar \/ ReceiveTime \/ FillStreamBufferAny

SpecFill == Init /\ [][NextFill]_vars

(***************************************************************************)
(* Receiver::receive_time on every shape of TimePacket: the three-way      *)
(* exchange leaves stream_1, receive_2 and stream_3 at 0 until each is     *)
(* stamped, and receive_time is handed whatever its caller passes on.      *)
(***************************************************************************)
\* beside TimeStamps: stream_1 unset with stream_3 stamped, all but
\* receive_2 unset
UnsetTimeStamps == { <<0, 50100, 50200>>, <<0, 50100, 0>> }

AnyTimePackets ==
    { [sid |-> sid, stream_1 |-> t[1], receive_2 |-> t[2], stream_3 |-> t[3]] :
        sid \in Sids, t \in TimeStamps \cup UnsetTimeStamps }

ReceiveAnyTime ==
    /\ ~panicked
    /\ ObsCount < MaxTimeObs
    /\ \E packet \in AnyTimePackets :
        /\ LET r == receive_time(Self, packet)
           IN  SetSelf(r)
        /\ op' = [name |-> "receive_time", packet |-> packet]
    /\ out' = <<>>
    /\ pre' = Summary
    /\ UNCHANGED <<slips, clock, cvars, avars, xvars>>

NextTime == ReceiveAudio \/ ReceiveAnyTime

SpecTime == Init /\ [][NextTime]_vars

(***************************************************************************)
(* The time exchange between a source and a receiver whose clocks differ   *)
(* by a constant: the source's clock is D microseconds ahead of the        *)
(* receiver's, a packet takes r microseconds to go and come back, and the  *)
(* receiver stamps receive_2 half a round trip after stream_1.  Each stamp *)
(* is what time::now() reads on its machine at that instant.               *)
(***************************************************************************)
Offsets == {-1667, 0, 2500}
RoundTrips == {200, 301}
\* the source's clock at the first exchange, and the 200 ms between two
ExchangeT0 == 50 * 1000
ExchangePeriod == 200 * 1000
\* a first exchange that begins 1 ms before a second of the clock ends
ExchangeStarts == {ExchangeT0, MICROS_PER_SEC - 1000}

\* the timespec of a clock that is `micros` microseconds past its origin
Timespec(micros) ==
    [sec |-> micros \div MICROS_PER_SEC, nsec |-> (micros % MICROS_PER_SEC) * 1000]

\* the packet of exchange number n as it comes back from the source, the
\* first exchange sent when the source's clock is t0 past its origin
ExchangePacket(sid, D, r, n, t0) ==
    LET sent == t0 + n * ExchangePeriod
    IN  [sid |-> sid,
         stream_1 |-> now(Timespec(sent)),
         receive_2 |-> now(Timespec(sent + r \div 2 - D)),
         stream_3 |-> now(Timespec(sent + r))]

\* the stamps of the packet are those of clocks D apart with round trip r
Lawful(packet, D, r) ==
    /\ packet.stream_3 = packet.stream_1 + r
    /\ packet.receive_2 = packet.stream_1 + r \div 2 - D

\* the first audio packet of a source starts the stream; its clocks are
\* what they are from then on
StartExchange ==
    /\ ~law.started
    /\ \E D \in Offsets, r \in RoundTrips, t0 \in ExchangeStarts :
        law' = [started |-> TRUE, D |-> D, r |-> r, n |-> 0, t0 |-> t0, lawful |-> TRUE]
    /\ LET packet == AudioPacket(0, 1, 1)
       IN  /\ SetSelf(receive_audio(Self, packet, MagOf(HighNow), TRUE))
           /\ op' = [name |-> "receive_audio", packet |-> packet]
    /\ out' = <<>>
    /\ pre' = Summary
    /\ UNCHANGED <<slips, clock, cvars, avars, gvars, svars, mvars, ovars>>

Exchange ==
    /\ law.started
    /\ law.n < AGG_LEN + MaxExtra
    /\ LET packet == ExchangePacket(Unwrap(stream).sid, law.D, law.r, law.n, law.t0)
       IN  /\ SetSelf(receive_time(Self, packet))
           /\ op' = [name |-> "receive_time", packet |-> packet]
           /\ law' = [law EXCEPT !.n = law.n + 1,
                                 !.lawful = law.lawful /\ Lawful(packet, law.D, law.r)]
    /\ out' = <<>>
    /\ pre' = Summary
    /\ UNCHANGED <<slips, clock, cvars, avars, gvars, svars, mvars, ovars>>

NextLaw == StartExchange \/ Exchange

SpecLaw == Init /\ [][NextLaw]_vars

(***************************************************************************)
(* Scenario S1, a clean start: the packets seq 1..S1Packets of one source  *)
(* are handed to receive_audio in order, then fill_stream_buffer is called *)
(* once per packet with a buffer of one packet, at the playback instants   *)
(* T0, T0 + one packet, ...  A TimePacket may arrive at any point.         *)
(***************************************************************************)
S1Packets == 5

Inject ==
    /\ ~panicked
    /\ scen.injected < S1Packets
    /\ scen.fills = 0
    /\ LET packet == AudioPacket(0, 1, scen.injected + 1)
       IN  /\ SetSelf(receive_audio(Self, packet, MagOf(HighNow), TRUE))
           /\ op' = [name |-> "receive_audio", packet |-> packet]
    /\ scen' = [scen EXCEPT !.injected = scen.injected + 1]
    /\ out' = <<>>
    /\ pre' = Summary
    /\ UNCHANGED <<slips, clock, cvars, avars, gvars, lvars, mvars, ovars>>

Fill ==
    /\ ~panicked
    /\ scen.injected = S1Packets
    /\ scen.fills < S1Packets
    /\ LET pts == SourceT0 + scen.fills * ONE_PACKET
           r == fill_stream_buffer(Self, SAMPLES_PER_PACKET, MagOf(pts), Exact, TRUE)
       IN  /\ SetSelf(r[1])
           /\ out' = r[2]
           /\ clock' = pts
           /\ op' = [name |-> "fill_stream_buffer", len |-> SAMPLES_PER_PACKET,
                     pts |-> pts, slip |-> FALSE, answer |-> Exact]
    /\ scen' = [scen EXCEPT !.fills = scen.fills + 1]
    /\ pre' = Summary
    /\ UNCHANGED <<slips, cvars, avars, gvars, lvars, mvars, ovars>>

NextS1 == Inject \/ ReceiveTime \/ Fill

SpecS1 == Init /\ [][NextS1]_vars

(***************************************************************************)
(* run_receive: the network thread and the audio callback share the        *)
(* Receiver behind one Mutex.  Each locks it, makes its call on the        *)
(* Receiver and drops the guard at the end of its block.  The steps of a   *)
(* thread are the points at which the other one may run: before the lock,  *)
(* and, inside the packet handler, between the admission of the packet     *)
(* (prepare_stream and the extension of the queue) and the write to its    *)
(* slot.                                                                   *)
(***************************************************************************)
\* a lock that never waits
lock_granted_always(owner) == TRUE

\* state.lock(): granted when no guard is alive
lock_granted(owner) == owner = "free"

HoldsGuard(t) == thread[t].pc \in {"admit", "store", "fill", "drop"}

\* the time packet sent to the two threads: a completed exchange of 200 us
\* round trip with the first stream, which gives it its latency and clock
\* delta
LockTimePackets ==
    { t \in TimePackets : t.sid = 1 /\ t.receive_2 = 50100 /\ t.stream_3 = 50200 }

\* a TimePacket, as against an AudioPacket
IsTime(packet) == "stream_1" \in DOMAIN packet

\* socket.recv: a packet of full size
NetRecv ==
    /\ thread.network.pc = "recv"
    /\ \E packet \in AudioPackets \cup { t \in LockTimePackets : ObsCount < MaxObs } :
        thread' = [thread EXCEPT !.network.pc = "lock", !.network.packet = Some(packet)]
    /\ UNCHANGED <<rvars, mutex, left, cvars, avars, gvars, lvars, svars, ovars>>

\* let mut state = state.lock().unwrap(): waits for the guard; panics on a
\* mutex that a panic has poisoned
NetLock ==
    /\ thread.network.pc = "lock"
    /\ mutex = "poisoned" \/ lock_granted(mutex)
    /\ IF mutex = "poisoned"
       THEN /\ thread' = [thread EXCEPT !.network.pc = "panicked"]
            /\ UNCHANGED mutex
       ELSE /\ mutex' = "network"
            /\ thread' = [thread EXCEPT !.network.pc = "admit"]
    /\ UNCHANGED <<rvars, left, cvars, avars, gvars, lvars, svars, ovars>>

\* the packet handler: receive_time as a whole; receive_audio up to the slot
\* made for the packet (the flags test, prepare_stream, the dts prediction
\* and the extension of the queue).  A panic unwinds through the guard and
\* poisons the mutex.
NetAdmit ==
    /\ thread.network.pc = "admit"
    /\ \E t \in Nows, overflow_checks \in BOOLEAN :
        LET packet == Unwrap(thread.network.packet)
            admitted == IF IsTime(packet) THEN <<"return", receive_time(Self, packet)>>
                        ELSE admit_audio(Self, packet, MagOf(t), overflow_checks)
            r == admitted[2]
        IN  /\ ~overflow_checks => (~IsTime(packet) /\ ChecksMatter(packet, t))
            /\ (IsTime(packet) \/ ~PredictsDts \/ packet.flags # 0) => t = HighNow
            /\ SetSelf(r)
            /\ thread' = [thread EXCEPT
                            !.network.pc = IF r.panicked THEN "panicked"
                                           ELSE IF admitted[1] = "store" THEN "store"
                                           ELSE "drop",
                            !.network.now = t,
                            !.network.overflow_checks = overflow_checks]
            /\ mutex' = IF r.panicked THEN "poisoned" ELSE mutex
            /\ op' = [name |-> IF IsTime(packet) THEN "receive_time" ELSE "receive_audio",
                      packet |-> packet]
    /\ out' = <<>>
    /\ pre' = Summary
    /\ UNCHANGED <<slips, clock, left, cvars, avars, gvars, lvars, svars, ovars>>

\* the write of the packet to its slot; a panic unwinds through the guard
NetStore ==
    /\ thread.network.pc = "store"
    /\ LET r == store_audio(Self, Unwrap(thread.network.packet))
       IN  /\ SetSelf(r)
           /\ thread' = [thread EXCEPT !.network.pc = IF r.panicked THEN "panicked"
                                                      ELSE "drop"]
           /\ mutex' = IF r.panicked THEN "poisoned" ELSE mutex
    /\ UNCHANGED <<op, out, pre, slips, clock, left, cvars, avars, gvars, lvars, svars, ovars>>

\* the guard goes out of scope at the end of the loop body
NetUnlock ==
    /\ thread.network.pc = "drop"
    /\ mutex' = "free"
    /\ left' = <<stream, queue>>
    /\ thread' = [thread EXCEPT !.network = [pc |-> "recv", packet |-> None,
                                             now |-> HighNow, overflow_checks |-> TRUE]]
    /\ UNCHANGED <<rvars, cvars, avars, gvars, lvars, svars, ovars>>

\* the output callback is called: pts = now + output latency
AudioPts ==
    /\ thread.audio.pc = "pts"
    /\ \E pts \in FillPts :
        /\ pts > clock
        /\ thread' = [thread EXCEPT !.audio = [pc |-> "lock", pts |-> Some(pts)]]
    /\ UNCHANGED <<rvars, mutex, left, cvars, avars, gvars, lvars, svars, ovars>>

\* let mut state = state.lock().unwrap(): waits for the guard; panics on a
\* mutex that a panic has poisoned
AudioLock ==
    /\ thread.audio.pc = "lock"
    /\ mutex = "poisoned" \/ lock_granted(mutex)
    /\ IF mutex = "poisoned"
       THEN /\ thread' = [thread EXCEPT !.audio.pc = "panicked"]
            /\ UNCHANGED mutex
       ELSE /\ mutex' = "audio"
            /\ thread' = [thread EXCEPT !.audio.pc = "fill"]
    /\ UNCHANGED <<rvars, left, cvars, avars, gvars, lvars, svars, ovars>>

\* state.recv.fill_stream_buffer(data, pts)
AudioFill ==
    /\ thread.audio.pc = "fill"
    /\ LET pts == Unwrap(thread.audio.pts)
           r == fill_stream_buffer(Self, SAMPLES_PER_PACKET, MagOf(pts), Exact, TRUE)
       IN  /\ SetSelf(r[1])
           /\ out' = r[2]
           /\ clock' = pts
           /\ op' = [name |-> "fill_stream_buffer", len |-> SAMPLES_PER_PACKET,
                     pts |-> pts, slip |-> FALSE, answer |-> Exact]
           /\ thread' = [thread EXCEPT !.audio.pc = IF r[1].panicked THEN "panicked"
                                                    ELSE "drop"]
           /\ mutex' = IF r[1].panicked THEN "poisoned" ELSE mutex
    /\ pre' = Summary
    /\ UNCHANGED <<slips, left, cvars, avars, gvars, lvars, svars, ovars>>

\* the guard goes out of scope at the end of the callback
AudioUnlock ==
    /\ thread.audio.pc = "drop"
    /\ mutex' = "free"
    /\ left' = <<stream, queue>>
    /\ thread' = [thread EXCEPT !.audio = [pc |-> "pts", pts |-> None]]
    /\ UNCHANGED <<rvars, cvars, avars, gvars, lvars, svars, ovars>>

NextLock ==
    \/ NetRecv \/ NetLock \/ NetAdmit \/ NetStore \/ NetUnlock
    \/ AudioPts \/ AudioLock \/ AudioFill \/ AudioUnlock

SpecLock == Init /\ [][NextLock]_vars

(***************************************************************************)
(* A source: input callbacks of any length, and the packets its network    *)
(* loop receives.  The callbacks and the loop share nothing but the        *)
(* socket, so each is run on its own.                                      *)
(***************************************************************************)
\* frames in a callback: half a packet, one, one and a half, two
DataFrames == { (k * FRAMES_PER_PACKET) \div 2 : k \in 1..4 }

\* --delay-ms 20, in frames
SourceDelay == from_std_duration_lossy(20 * 1000)

\* the addresses packets come from
Peers == {"receiver_a", "receiver_b"}

\* <<stream_1, receive_2, stream_3>> of the time packets that reach the
\* source: those of TimeStamps and its own broadcast
SourceTimeStamps == TimeStamps \cup { <<50000, 0, 0>> }

\* the packets that reach the source's socket (kind None: not a packet)
SourcePackets ==
    { [kind |-> "Audio", sid |-> sid] : sid \in PeerSids }
        \cup { [kind |-> "Time", sid |-> sid, rid |-> rid, stream_1 |-> t[1],
                receive_2 |-> t[2], stream_3 |-> t[3]] :
                  sid \in PeerSids, rid \in Peers, t \in SourceTimeStamps }
        \cup { [kind |-> "StatsRequest"], [kind |-> "StatsReply"], [kind |-> "None"] }

\* the timestamp (in frames) at which the first sample of the k-th packet
\* completed by a callback was written: the builder held `length` frames
\* when the callback began at `timestamp`, and its packet was begun at `begun`
FirstSample(k, length, timestamp, begun) ==
    IF k = 1 /\ length > 0 THEN begun
    ELSE [ts |-> timestamp + (k - 1) * ONE_PACKET - length, fresh |-> TRUE]

InputCallback ==
    /\ source.audio = "running"
    /\ source.network = "running"
    /\ \E data \in DataFrames, now_usec \in Nows, broadcast_ok \in BOOLEAN :
        /\ Len(source.sent) + data \div FRAMES_PER_PACKET < MaxSent
        /\ LET timestamp == from_micros_lossy(now_usec) + SourceDelay
               length == source.length
               held == IF length > 0 THEN [Unwrap(source.begun) EXCEPT !.fresh = FALSE]
                       ELSE [ts |-> timestamp, fresh |-> TRUE]
               completed == IF broadcast_ok THEN (length + data) \div ONE_PACKET ELSE 0
               rest == (length + data) % ONE_PACKET
               callback == source.callbacks + 1
               after == input_callback(source, data, now_usec, SourceDelay, broadcast_ok)
           IN  source' =
                 [after EXCEPT
                    !.callbacks = callback,
                    !.stamps = source.stamps \o
                        [k \in 1..completed |->
                            [first |-> FirstSample(k, length, timestamp, held).ts,
                             fresh |-> FirstSample(k, length, timestamp, held).fresh,
                             callback |-> callback]],
                    \* a failed broadcast panics with the builder just
                    \* replaced by an empty one
                    !.begun = IF rest = 0 \/ after.audio = "panicked" THEN None
                              ELSE IF length + data < ONE_PACKET THEN Some(held)
                              ELSE Some(FirstSample((length + data) \div ONE_PACKET + 1,
                                                    length, timestamp, held))]
    /\ UNCHANGED <<rvars, cvars, avars, gvars, lvars, svars, mvars>>

NetworkLoop ==
    /\ source.network = "running"
    /\ \E received \in {None} \cup { Some(packet) : packet \in SourcePackets },
          peer \in Peers, now_usec \in Nows, send_ok \in BOOLEAN :
        source' = [network_loop(source, received, peer, now_usec, send_ok)
                      EXCEPT !.last = Some([received |-> received, peer |-> peer,
                                            now_usec |-> now_usec, send_ok |-> send_ok])]
    /\ UNCHANGED <<rvars, cvars, avars, gvars, lvars, svars, mvars>>

\* the network loop, packet after packet
NextSource == NetworkLoop

SpecSource == Init /\ [][NextSource]_vars

\* the input callbacks, one after the other
NextPacketizer == InputCallback

SpecPacketizer == Init /\ [][NextPacketizer]_vars

(***************************************************************************)
(* The clocks, the sources that start and the calls of time::now           *)
(***************************************************************************)
\* the time that passes between two events: 0.4 s, 0.7 s
TickNanos == {400000000, 700000000}

Advance(timespec, d) ==
    LET n == timespec.nsec + d
    IN  [sec |-> timespec.sec + n \div NANOS_PER_SEC, nsec |-> n % NANOS_PER_SEC]

Tick ==
    /\ \E d \in TickNanos :
        /\ Advance(wall, d).sec <= MaxSec
        /\ wall' = Advance(wall, d)
        /\ mono' = Advance(mono, d)
    /\ UNCHANGED <<sessions, nows, rvars, avars, xvars>>

\* a source process starts: stream::run calls generate_session_id
StartSource ==
    /\ Len(sessions) < MaxCalls
    /\ sessions' = Append(sessions, [at |-> InstantMicros(wall), sid |-> generate_session_id(wall)])
    /\ UNCHANGED <<wall, mono, nows, rvars, avars, xvars>>

CallNow ==
    /\ Len(nows) < MaxCalls
    /\ nows' = Append(nows, [at |-> InstantMicros(mono), now |-> now(mono)])
    /\ UNCHANGED <<wall, mono, sessions, rvars, avars, xvars>>

NextClock == Tick \/ StartSource \/ CallNow

SpecClock == Init /\ [][NextClock]_vars

(***************************************************************************)
(* A RateAdjust on its own: set_timing and adjusted_rate in any order      *)
(***************************************************************************)
PlayTs == 2 * SAMPLE_RATE
\* real_ts - play_ts, in frames: around the stop threshold, around the start
\* threshold, and beyond both clamps
FrameOffsets ==
    {0, 3, -3, 4, -4, 5, -5, 95, -95, 96, -96, 400, -400, 500, -500, 48000, -48000}

SetTiming ==
    /\ \E off \in FrameOffsets, play \in {PlayTs, PlayTs + ONE_PACKET} :
        rate_adj' = set_timing(rate_adj, play + off, play)
    /\ rate_ret' = None
    /\ rate_op' = [name |-> "set_timing", slew |-> rate_adj.slew]
    /\ UNCHANGED <<rvars, cvars, xvars>>

AdjustedRate ==
    /\ LET r == adjusted_rate(rate_adj)
       IN  /\ rate_adj' = r[1]
           /\ rate_ret' = r[2]
    /\ rate_op' = [name |-> "adjusted_rate", slew |-> rate_adj.slew]
    /\ UNCHANGED <<rvars, cvars, xvars>>

NextRate == SetTiming \/ AdjustedRate

SpecRate == Init /\ [][NextRate]_vars

(***************************************************************************)
(* adjusted_rate on any i64 frame offset, in builds with and without       *)
(* overflow checks.                                                        *)
(***************************************************************************)
\* the largest frame offset whose product with 1_000_000 is an i64
MagExact == MagDiv(MagI64Max, MICROS_PER_SEC)
\* the frames of a pts of 10^15 microseconds
MagFarPts == Low(MagMul(MagOf(MICROS_PER_SEC * (SAMPLE_RATE \div 1000)), MICROS_PER_SEC))

Signed(mag) == { [neg |-> b, mag |-> mag] : b \in BOOLEAN }

I64Offsets ==
    { I64(n) : n \in FrameOffsets \cup {24000, -24000, 24001, -481, -480} }
    \cup Signed(MagExact) \cup Signed(MagInc(MagExact)) \cup Signed(MagFarPts)
    \cup Signed(MagI64Max) \cup {[neg |-> TRUE, mag |-> MagI64Min]}

AdjustedRateI64 ==
    /\ ~panicked
    /\ \E frame_offset \in I64Offsets, overflow_checks \in BOOLEAN :
        LET r == adjusted_rate_i64(rate_adj.slew, frame_offset, overflow_checks)
        IN  /\ rate_adj' = [rate_adj EXCEPT !.slew = r.slew]
            /\ rate_ret' = r.ret
            /\ rate_op' = [name |-> "adjusted_rate", slew |-> rate_adj.slew,
                           frame_offset |-> frame_offset,
                           overflow_checks |-> overflow_checks, panic |-> r.panic]
            /\ panicked' = (r.panic # "none")
    /\ UNCHANGED <<stream, queue, status, op, out, slips, clock, pre, cvars, xvars>>

NextRateI64 == AdjustedRateI64

SpecRateI64 == Init /\ [][NextRateI64]_vars

(***************************************************************************)
(* An Aggregate on its own: observe, up to MaxExtra calls past the ring's  *)
(* length.  The observed value changes at most MaxSwitch times.            *)
(***************************************************************************)
\* two latencies, in microseconds
AggValues == {100, 300}

Switches(h) == Cardinality({ i \in 1..(Len(h) - 1) : h[i] # h[i + 1] })

Observe ==
    /\ Len(agg_hist) < AGG_LEN + MaxExtra
    /\ \E value \in AggValues :
        /\ Switches(Append(agg_hist, value)) <= MaxSwitch
        /\ agg_ring' = observe(agg_ring, value)
        /\ agg_hist' = Append(agg_hist, value)
    /\ UNCHANGED <<rvars, cvars, avars, lvars, svars, mvars, ovars>>

NextAgg == Observe

SpecAgg == Init /\ [][NextAgg]_vars

(***************************************************************************)
(* Properties                                                              *)
(***************************************************************************)
FreshStream(s, packet) ==
    /\ s.sid = packet.sid
    /\ s.start_seq = packet.seq
    /\ ~s.sync
    /\ s.resampler = SAMPLE_RATE
    /\ s.rate_adjust = [real_ts |-> None, play_ts |-> None, slew |-> FALSE]
    /\ s.latency = [samples |-> <<>>, count |-> 0, index |-> 0]
    /\ s.clock_delta = [samples |-> <<>>, count |-> 0, index |-> 0]

OnlySlotOf(q, packet) ==
    /\ Len(q) = 1
    /\ q[1].seq = packet.seq
    /\ q[1].consumed = 0
    /\ q[1].packet = Some(packet)

\* C1: whatever the receiver's state, a call of fill_stream_buffer on a
\* buffer of even length returns with the buffer written from sample 0 to
\* sample len, every sample once: the writes are non-empty, start at 0,
\* follow one another without a gap or an overlap, and end at len.  Stated
\* for the calls in which the resampler returns no error.
C1_FillWritesEverySampleOnce ==
    (op.name = "fill_stream_buffer" /\ op.answer.ok) =>
        /\ ~panicked
        /\ out # <<>>
        /\ out[1].off = 0
        /\ \A i \in 1..Len(out) : out[i].len > 0
        /\ \A i \in 1..(Len(out) - 1) : out[i + 1].off = out[i].off + out[i].len
        /\ out[Len(out)].off + out[Len(out)].len = op.len

\* C2: after any interleaving of the handlers the queue's seqs are
\* contiguous and increasing: the entry at index i has seq front.seq + i
\* (indices from 0).
C2_QueueContiguous ==
    \A i \in 1..Len(queue) : queue[i].seq = Front(queue).seq + (i - 1)

\* a packet admitted two seqs past the back of a queue that does not start
\* at seq 1: the slot between is made with it
C2_Witness ==
    /\ op.name = "receive_audio"
    /\ Len(queue) >= 3
    /\ Front(queue).seq > 1
    /\ queue[Len(queue) - 1].packet = None
    /\ Back(queue).packet = Some(op.packet)
    /\ pre.qlen = Len(queue) - 2

\* C3: the queue never holds more than max_seq_gap + 1 entries, fills or no
\* fills between the admissions.
C3_QueueLengthBounded == Len(queue) <= max_seq_gap + 1

\* C4: when receive_audio accepts a packet whose sid is greater than the
\* stream's, it returns with a fresh stream for the packet (its sid, its seq
\* as start_seq, sync false, empty aggregates, fresh rate_adjust) and with a
\* queue that holds the packet's slot and nothing else.
C4_TakeoverLeavesNoResidue ==
    (/\ op.name = "receive_audio"
     /\ op.packet.flags = 0
     /\ pre.sid # 0
     /\ op.packet.sid > pre.sid)
    => /\ ~panicked
       /\ stream # None
       /\ FreshStream(Unwrap(stream), op.packet)
       /\ OnlySlotOf(queue, op.packet)

\* a takeover of a synced stream with slots in its queue
C4_Witness ==
    /\ op.name = "receive_audio"
    /\ op.packet.flags = 0
    /\ pre.sid # 0
    /\ op.packet.sid > pre.sid
    /\ pre.sync
    /\ pre.qlen >= 2
    /\ Unwrap(stream).sid = op.packet.sid

\* C5: a packet that arrives while the slot of its seq waits in the queue
\* (the slot was made by a later packet and has not been drained) fills that
\* slot, so that the fills play the packet and not silence: scenario S2,
\* packet 2 arriving after the fill that drained packet 1.
C5_LatePacketFillsItsSlot ==
    (/\ op.name = "receive_audio"
     /\ ~panicked
     /\ op.packet.flags = 0
     /\ pre.sid = op.packet.sid
     /\ pre.qlen > 0
     /\ pre.front <= op.packet.seq
     /\ op.packet.seq <= pre.back)
    => \E i \in 1..Len(queue) :
           /\ queue[i].seq = op.packet.seq
           /\ queue[i].packet = Some(op.packet)

\* C6: what a fill takes from a slot whose pts is None is silence.
C6_NoPtsSlotYieldsSilence ==
    op.name = "fill_stream_buffer" =>
        \A i \in 1..Len(out) :
            (out[i].seq # 0 /\ out[i].pts = None) => out[i].buf = 0

\* C7: of two sources, the one that started at the later wall-clock instant
\* has the greater session id.
C7_SessionIdsOrderedByStart ==
    \A i, j \in 1..Len(sessions) :
        sessions[i].at < sessions[j].at => sessions[i].sid < sessions[j].sid

\* C8: of two successive calls of time::now the second returns no less than
\* the first, and more by the microseconds that passed on the clock between
\* them.
C8_NowMonotonic ==
    \A i \in 1..(Len(nows) - 1) :
        /\ nows[i + 1].now >= nows[i].now
        /\ nows[i + 1].now - nows[i].now = nows[i + 1].at - nows[i].at

\* C9: when a packet of the stream's sid, past the front of the queue, is
\* max_seq_gap or more past the back, receive_audio returns without a panic,
\* with a new stream that starts at the packet (sync false, empty aggregates)
\* and a queue of one entry, the packet's.
C9_GapResets ==
    (/\ op.name = "receive_audio"
     /\ op.packet.flags = 0
     /\ pre.sid = op.packet.sid
     /\ pre.qlen > 0
     /\ u64_le(pre.start_seq, op.packet.seq)
     /\ u64_lt(pre.front, op.packet.seq)
     /\ ~(pre.back < 0 /\ pre.back + max_seq_gap >= 0)
     /\ u64_le(pre.back + max_seq_gap, op.packet.seq))
    => /\ ~panicked
       /\ stream # None
       /\ FreshStream(Unwrap(stream), op.packet)
       /\ OnlySlotOf(queue, op.packet)

\* a packet exactly max_seq_gap past the back of a synced stream's queue
C9_Witness ==
    /\ op.name = "receive_audio"
    /\ op.packet.flags = 0
    /\ pre.sid = op.packet.sid
    /\ pre.qlen > 0
    /\ pre.sync
    /\ op.packet.seq > pre.front
    /\ pre.back + max_seq_gap = op.packet.seq
    /\ Len(queue) = 1

\* C10: when real_ts and play_ts are less than 100 microseconds apart,
\* adjusted_rate returns None and leaves slew false, whatever slew was.
C10_NoAdjustmentBelowStop ==
    (/\ rate_op.name = "adjusted_rate"
     /\ rate_adj.real_ts # None
     /\ Abs(Unwrap(rate_adj.real_ts) - Unwrap(rate_adj.play_ts)) * RateDen
            < STOP_SLEW_US * RateNum)
    => /\ rate_ret = None
       /\ ~rate_adj.slew

\* the last min(N, AGG_LEN) values of a history
LastWindow(h) == SubSeq(h, Max(1, Len(h) - AGG_LEN + 1), Len(h))

\* m is a middle value of w: more than half of the entries (rounded down)
\* are not above it, and at least the other half are not below it
HasRank(w, m, k) ==
    /\ Cardinality({ i \in 1..Len(w) : w[i] <= m }) >= k + 1
    /\ Cardinality({ i \in 1..Len(w) : w[i] >= m }) >= Len(w) - k

\* C11: after N observe calls on a fresh Aggregate, median() is None when
\* N = 0 and otherwise the median of the last min(N, 64) observed values (of
\* rank count / 2 among them, the upper of the two middle values when their
\* number is even); older values do not contribute.
C11_MedianOfLastWindow ==
    \A w \in {LastWindow(agg_hist)}, m \in {median(agg_ring)} :
        IF agg_hist = <<>> THEN m = None
        ELSE /\ m # None
             /\ \E i \in 1..Len(w) : w[i] = Unwrap(m)
             /\ \A v \in {Unwrap(m)} : HasRank(w, v, Len(w) \div 2)

\* more than 64 observations, and the evicted ones would have moved the
\* median: the first 64 values have another median than the last 64
C11_Witness ==
    /\ Len(agg_hist) > AGG_LEN
    /\ median(agg_ring) # None
    /\ ~HasRank(SubSeq(agg_hist, 1, AGG_LEN), Unwrap(median(agg_ring)), AGG_LEN \div 2)

\* the stream has recorded no clock-delta observation
NoClockDelta == stream # None /\ Unwrap(stream).clock_delta.count = 0

\* C13: while the stream has no clock-delta observation the receiver plays
\* silence: the stream is not in sync, no slot of the queue has a pts, and a
\* fill_stream_buffer call has written only zeros and has popped exactly one
\* slot of a non-empty queue (none of an empty one).
C13_SilentWithoutClockDelta ==
    NoClockDelta =>
        /\ ~Unwrap(stream).sync
        /\ \A i \in 1..Len(queue) : queue[i].pts = None
        /\ op.name = "fill_stream_buffer" =>
              /\ \A i \in 1..Len(out) : out[i].buf = 0
              /\ Len(queue) = Max(pre.qlen - 1, 0)

\* a fill without clock-delta observation on a queue of two packets or more
C13_Witness ==
    /\ NoClockDelta
    /\ op.name = "fill_stream_buffer"
    /\ pre.qlen >= 2
    /\ Len(queue) = pre.qlen - 1
    /\ Front(queue).packet # None
    /\ out # <<>>

\* C14: receive_audio on a packet with nonzero flags changes neither the
\* stream (sid, start_seq, sync, aggregates) nor the queue nor the status,
\* whatever the packet's sid and seq.
C14_FlaggedPacketDropped ==
    [][(op'.name = "receive_audio" /\ op'.packet.flags # 0)
          => UNCHANGED <<stream, queue, status>>]_vars

\* a flagged packet of a newer session, a gap or more past the back of a
\* non-empty queue, has been handled
C14_Witness ==
    /\ op.name = "receive_audio"
    /\ op.packet.flags # 0
    /\ pre.sid # 0
    /\ op.packet.sid > pre.sid
    /\ pre.qlen > 0
    /\ pre.back + max_seq_gap <= op.packet.seq
    /\ Len(queue) = pre.qlen

\* the packet is stale for the receiver: of an older session, or of the
\* current one with a seq before the start or not after the front
Stale(packet) ==
    /\ stream # None
    /\ \/ packet.sid < Unwrap(stream).sid
       \/ /\ packet.sid = Unwrap(stream).sid
          /\ \/ u64_lt(packet.seq, Unwrap(stream).start_seq)
             \/ queue # <<>> /\ u64_le(packet.seq, Front(queue).seq)

\* C15: receive_audio on a stale packet leaves the stream and every entry
\* of the queue unchanged.
C15_StalePacketDropped ==
    [][(op'.name = "receive_audio" /\ Stale(op'.packet))
          => UNCHANGED <<stream, queue>>]_vars

\* a packet of the current session with the seq of the front slot, which
\* is still waiting for its packet, has been handled
C15_Witness ==
    /\ op.name = "receive_audio"
    /\ op.packet.flags = 0
    /\ op.packet.sid = pre.sid
    /\ op.packet.seq >= pre.start_seq
    /\ pre.qlen > 0
    /\ op.packet.seq = pre.front
    /\ Front(queue).packet = None

\* the aggregates of the stream, if there is one
Aggregates(st) == IF st = None THEN None ELSE <<Unwrap(st).latency, Unwrap(st).clock_delta>>

\* the packet is a completed TimePacket for the current stream
Completed(packet) ==
    /\ stream # None
    /\ packet.sid = Unwrap(stream).sid
    /\ packet.stream_1 # 0
    /\ packet.stream_3 # 0
    /\ packet.stream_3 >= packet.stream_1

\* C16: receive_time changes the latency and clock_delta aggregates only on
\* a completed TimePacket for the current stream (stream_1 and stream_3
\* both nonzero, stream_3 >= stream_1, sid equal); on any other packet both
\* aggregates are unchanged.
C16_ObservesOnlyCompletedPackets ==
    [][(op'.name = "receive_time" /\ ~Completed(op'.packet))
          => Aggregates(stream') = Aggregates(stream)]_vars

\* C17: if every TimePacket delivered carries the stamps of clocks a
\* constant D apart with a constant round trip r (receive_2 stamped half a
\* round trip after stream_1), the latency median is r / 2 (in whole
\* microseconds) and the clock-delta median is D after the first
\* observation and after every later one.
C17_ClockSyncLaw ==
    (law.started /\ law.n >= 1 /\ law.lawful) =>
        /\ network_latency(Unwrap(stream)) = Some(law.r \div 2)
        /\ median(Unwrap(stream).clock_delta) = Some(law.D)

\* the ring has wrapped: more exchanges than it holds, with an odd round
\* trip and clocks that differ
C17_Witness ==
    /\ law.started /\ law.lawful
    /\ law.n > AGG_LEN
    /\ law.D # 0
    /\ law.r % 2 = 1
    /\ Unwrap(stream).clock_delta.count = AGG_LEN
    /\ median(Unwrap(stream).clock_delta) = Some(law.D)

\* C12: in scenario S1 every fill leaves the stream in sync and has written
\* its whole buffer from offset 0 with the payload of the packet of its
\* rank (the first fill with no leading zeros), and the queue is empty
\* after the last fill.
C12_CleanStart ==
    (op.name = "fill_stream_buffer" /\ scen.fills >= 1) =>
        /\ stream # None /\ Unwrap(stream).sync
        /\ Len(out) = 1
        /\ out[1].off = 0
        /\ out[1].len = SAMPLES_PER_PACKET
        /\ out[1].buf = Payload(1, scen.fills)
        /\ scen.fills = S1Packets => queue = <<>>

\* C18: the Receiver is only touched under its one mutex.  The packet
\* handler and fill_stream_buffer never hold a guard at the same time; a
\* thread holds the guard exactly while it is between its lock and the end
\* of its block, so it never locks again while holding it; the stream and
\* queue a fill is about to read are those the last dropped guard left, so
\* every packet handled before the fill took the lock is in them; a panic
\* under the lock poisons the mutex, after which no guard is held again;
\* and the packet handler, run in its two steps, leaves the stream, the
\* queue and the panic that receive_audio or receive_time makes of the
\* receiver it locked.
C18_MutexDiscipline ==
    /\ ~(HoldsGuard("network") /\ HoldsGuard("audio"))
    /\ \A t \in {"network", "audio"} : HoldsGuard(t) <=> mutex = t
    /\ thread.audio.pc = "fill" => <<stream, queue>> = left
    /\ panicked => (thread.network.pc = "panicked" /\ mutex = "poisoned")
    /\ thread.network.pc \in {"drop", "panicked"} =>
          LET locked == [stream |-> left[1], queue |-> left[2],
                         status |-> status, panicked |-> FALSE]
              packet == Unwrap(thread.network.packet)
              r == IF IsTime(packet) THEN receive_time(locked, packet)
                   ELSE receive_audio(locked, packet, MagOf(thread.network.now),
                                      thread.network.overflow_checks)
          IN  <<stream, queue, panicked>> = <<r.stream, r.queue, r.panicked>>

\* the callback holds the guard and is about to fill from a queue in which
\* a handled packet sits, while the network thread waits for the lock with
\* the next one
C18_Witness ==
    /\ thread.audio.pc = "fill"
    /\ mutex = "audio"
    /\ thread.network.pc = "lock"
    /\ queue # <<>>
    /\ Front(queue).packet # None
    /\ op.name = "receive_audio"

\* C19: the audio packets a source has broadcast carry seq 1, 2, 3, ... in
\* the order of their broadcast, whatever the lengths of the input
\* callbacks and wherever the packet boundaries fall in their data.
C19_SeqCountsFromOne ==
    \A i \in 1..Len(source.sent) : source.sent[i].seq = i

\* three packets or more are out and the packet buffer holds the first
\* half of the next: a callback ended between two packet boundaries
C19_Witness ==
    /\ Len(source.sent) >= 3
    /\ source.length # 0
    /\ source.audio_header.seq = Len(source.sent) + 1

\* the packet the network loop received last is an audio packet of a later
\* session
LastTakesOver ==
    /\ source.last # None
    /\ Unwrap(source.last).received # None
    /\ Unwrap(Unwrap(source.last).received).kind = "Audio"
    /\ Unwrap(Unwrap(source.last).received).sid > source.sid

\* C20: the network loop of the source has returned (Ok) exactly when the
\* packet it received last is an audio packet with a sid greater than its
\* own; on every other packet it received and, where it replies, answered,
\* it runs on.  (It ends in a panic, not a return, only when recv_from or
\* the send of a time reply fails.)
C20_ExitsOnTakeoverOnly ==
    /\ source.network = "returned" <=> LastTakesOver
    /\ source.network = "panicked" =>
          \/ Unwrap(source.last).received = None
          \/ /\ ~Unwrap(source.last).send_ok
             /\ Unwrap(Unwrap(source.last).received).kind = "Time"

\* the loop has returned on the audio packet of a later session
C20_Witness ==
    /\ source.network = "returned"
    /\ LastTakesOver
    /\ source.reply = None

\* the packet the network loop received last is a time packet of the
\* source's own session in phase ReceiverReply
LastAsksTime ==
    /\ source.last # None
    /\ Unwrap(source.last).received # None
    /\ Unwrap(Unwrap(source.last).received).kind = "Time"
    /\ Unwrap(Unwrap(source.last).received).sid = source.sid
    /\ phase(Unwrap(Unwrap(source.last).received)) = Some("ReceiverReply")

\* C21: the source sends a time packet exactly in answer to a time packet
\* of its own sid in phase ReceiverReply (and the send going through); the
\* answer goes to the peer that packet came from and is that packet with
\* stream_3 set to the source's time and every other field as received.
C21_TimeReply ==
    source.last # None =>
        LET last == Unwrap(source.last)
            answered == source.reply # None /\ Unwrap(source.reply).packet.kind = "Time"
        IN  /\ answered <=> (LastAsksTime /\ last.send_ok)
            /\ answered =>
                  /\ Unwrap(source.reply).to = last.peer
                  /\ Unwrap(source.reply).packet =
                        [Unwrap(last.received) EXCEPT !.stream_3 = last.now_usec]

\* an answer has gone out, stamped with a time other than the fields it
\* carries on
C21_Witness ==
    /\ LastAsksTime
    /\ source.reply # None
    /\ Unwrap(source.reply).packet.stream_3 # 0
    /\ Unwrap(source.reply).packet.stream_3 # Unwrap(source.reply).packet.receive_2
    /\ Unwrap(source.reply).packet.stream_1 = Unwrap(Unwrap(source.last).received).stream_1

\* packets i and i + 1 were completed by the same callback
SameCallback(i) == source.stamps[i].callback = source.stamps[i + 1].callback

\* two pts are one packet apart, in microseconds or in the frames they
\* convert to
OnePacketApart(pts_1, pts_2) ==
    \/ pts_2 - pts_1 = to_micros_lossy(ONE_PACKET)
    \/ from_micros_lossy(pts_2) - from_micros_lossy(pts_1) = ONE_PACKET

\* the pending pts is 0 after a callback exactly when the builder is empty
PendingPtsUnsetIffEmpty ==
    source.audio = "running" => (source.audio_header.pts = 0 <=> source.length = 0)

\* every packet sent carries the timestamp of its first sample, in
\* microseconds
PtsOfFirstSample ==
    \A i \in 1..Len(source.sent) :
        source.sent[i].pts = to_micros_lossy(source.stamps[i].first)

\* C27 as stated: every packet's pts is the timestamp of its first sample,
\* two packets completed in the same callback have pts exactly ONE_PACKET
\* apart, and the pending pts is 0 after a callback exactly when the
\* builder is empty.
C27_PtsStamping ==
    /\ PtsOfFirstSample
    /\ \A i \in 1..(Len(source.sent) - 1) :
          SameCallback(i) => OnePacketApart(source.sent[i].pts, source.sent[i + 1].pts)
    /\ PendingPtsUnsetIffEmpty

\* C27, amended: every packet's pts is the timestamp of its first sample
\* converted to microseconds, also when it is completed in a later
\* callback; of two packets completed in the same callback the second
\* carries the microseconds of a timestamp ONE_PACKET after the first's
\* when the first was begun in that callback too; and the pending pts is 0
\* after a callback exactly when the builder is empty.
C27_PtsStampingAmended ==
    /\ PtsOfFirstSample
    /\ \A i \in 1..(Len(source.sent) - 1) :
          (SameCallback(i) /\ source.stamps[i].fresh) =>
              source.sent[i + 1].pts =
                  to_micros_lossy(source.stamps[i].first + ONE_PACKET)
    /\ PendingPtsUnsetIffEmpty

\* a callback has completed a packet begun in a callback before it and the
\* whole packet after it, and left the builder part full
C27_Witness ==
    /\ Len(source.sent) >= 2
    /\ \E i \in 1..(Len(source.sent) - 1) :
          /\ SameCallback(i)
          /\ ~source.stamps[i].fresh
          /\ ~OnePacketApart(source.sent[i].pts, source.sent[i + 1].pts)
    /\ source.length # 0
    /\ source.audio_header.pts # 0

\* the last call was a fill that ran out of queue in its copy phase: the
\* stream is in sync, the queue is empty and the end of the buffer was zeroed
Missed ==
    /\ op.name = "fill_stream_buffer"
    /\ stream # None /\ Unwrap(stream).sync
    /\ queue = <<>>
    /\ out # <<>>
    /\ out[Len(out)].seq = 0
    /\ out[Len(out)].off + out[Len(out)].len = op.len

\* the last fill copied from a slot that carries a pts
ConsumedPts == \E i \in 1..Len(out) : out[i].seq # 0 /\ out[i].pts # None

\* C22: the status becomes Miss exactly in a fill that finds the queue
\* empty while output remains in its copy phase, and the next fill that
\* consumes a slot carrying a pts (and does not run out again) sets it to
\* Slew if rate_adjust.slew is true and to Sync otherwise.
C22_MissIsTransient ==
    [][/\ Missed' => status' = "Miss"
       /\ (status' = "Miss" /\ status # "Miss") => Missed'
       /\ (op'.name = "fill_stream_buffer" /\ status = "Miss" /\ ~Missed' /\ ConsumedPts')
            => status' = IF Unwrap(stream').rate_adjust.slew THEN "Slew" ELSE "Sync"
      ]_vars

\* the slot of index k of queue `q` is where a fill at `pts` stops skipping:
\* every slot before it carries a pts that is late by ONE_PACKET or more
SkipsTo(q, k, pts) ==
    /\ k \in 1..Len(q)
    /\ \A i \in 1..(k - 1) : q[i].pts # None /\ pts - as_frames(Unwrap(q[i].pts)) >= ONE_PACKET
    /\ q[k].pts # None

\* the writes of a fill of `len` samples begin as a fill that synced on
\* `slot` with `consumed` frames skipped after `zero_count` samples of zeros
BeginsAt(segs, len, slot, consumed, zero_count) ==
    LET first == IF zero_count = 0 THEN 1 ELSE 2
    IN  /\ Len(segs) >= first
        /\ zero_count # 0 => segs[1] = ZeroFill(0, zero_count)
        /\ segs[first].seq = slot.seq
        /\ segs[first].off = zero_count
        /\ segs[first].len =
               Min(len - zero_count, SAMPLES_PER_PACKET - as_buffer_offset(consumed))

\* C23: a fill that starts out of sync and ends in sync has popped the
\* slots late by ONE_PACKET or more and synced on a front slot whose pts p
\* has pts - ONE_PACKET < p < pts + duration(buffer); if p < pts it skips
\* pts - p frames of the slot and writes no leading zeros, otherwise it
\* writes exactly p - pts frames of zeros and skips nothing.  A front that
\* is early by the duration of the buffer or more yields an all-zero
\* buffer, sync still false and the queue unchanged.
C23_SyncAlignment ==
    [][(op'.name = "fill_stream_buffer" /\ stream # None /\ ~Unwrap(stream).sync) =>
        /\ Unwrap(stream').sync =>
              \E k \in 1..Len(queue) :
                /\ SkipsTo(queue, k, op'.pts)
                /\ LET p == as_frames(Unwrap(queue[k].pts))
                       playback_pts == op'.pts
                       consumed == IF p < playback_pts THEN playback_pts - p ELSE 0
                       zero_count == IF p < playback_pts THEN 0
                                     ELSE as_buffer_offset(p - playback_pts)
                   IN  /\ playback_pts - ONE_PACKET < p
                       /\ p < playback_pts + from_buffer_offset(op'.len)
                       /\ BeginsAt(out', op'.len, queue[k], consumed, zero_count)
                       /\ \A i \in 1..Len(queue') : queue'[i].seq > queue[k].seq
                                                     \/ (i = 1 /\ queue'[i].seq = queue[k].seq)
        /\ (/\ queue # <<>> /\ Front(queue).pts # None
            /\ as_frames(Unwrap(Front(queue).pts)) - op'.pts >= from_buffer_offset(op'.len))
             => /\ out' = <<ZeroFill(0, op'.len)>>
                /\ ~Unwrap(stream').sync
                /\ queue' = queue
      ]_vars

\* a fill synced on a slot that had already begun, after skipping a late slot
C23_Witness ==
    /\ op.name = "fill_stream_buffer"
    /\ ~pre.sync /\ stream # None /\ Unwrap(stream).sync
    /\ out # <<>> /\ out[1].seq # 0 /\ out[1].seq > pre.front
    /\ out[1].len < Min(op.len, SAMPLES_PER_PACKET)

\* the packet is admitted to the queue of the running stream as it is:
\* no flags, the stream's sid, a seq that is neither stale nor, by the gap
\* test of prepare_stream, too far ahead
AdmitsToQueue(packet) ==
    /\ stream # None
    /\ packet.flags = 0
    /\ packet.sid = Unwrap(stream).sid
    /\ u64_le(Unwrap(stream).start_seq, packet.seq)
    /\ queue # <<>> => /\ u64_lt(Front(queue).seq, packet.seq)
                      /\ ~seq_too_far(Back(queue), packet)

\* the slot the packet leaves behind, with the pts adjusted by the stream
AdmittedSlot(slot, packet) ==
    [slot EXCEPT !.packet = Some(packet),
                 !.pts = adjust_pts(Unwrap(stream), from_micros_lossy_u64(packet.pts))]

\* C24: an admitted packet with front.seq < seq <= back.seq changes only the
\* slot of index seq - front.seq, which gets the packet and the adjusted pts
\* (a duplicate overwrites) and keeps its consumed offset; with
\* seq > back.seq exactly seq - back.seq slots are appended, all empty but
\* the last, which holds the packet; into an empty queue exactly one slot
\* is pushed.
C24_AdmitFrameEffect ==
    [][(op'.name = "receive_audio" /\ AdmitsToQueue(op'.packet) /\ ~panicked') =>
        LET packet == op'.packet
        IN  /\ (queue # <<>> /\ u64_le(packet.seq, Back(queue).seq)) =>
                  LET idx == packet.seq - Front(queue).seq
                  IN  /\ Len(queue') = Len(queue)
                      /\ \A i \in 1..Len(queue) : i # idx + 1 => queue'[i] = queue[i]
                      /\ queue'[idx + 1] = AdmittedSlot(queue[idx + 1], packet)
                      /\ queue'[idx + 1].consumed = queue[idx + 1].consumed
            /\ (queue # <<>> /\ u64_lt(Back(queue).seq, packet.seq)) =>
                  LET n == packet.seq - Back(queue).seq
                  IN  /\ Len(queue') = Len(queue) + n
                      /\ \A i \in 1..Len(queue) : queue'[i] = queue[i]
                      /\ \A i \in 1..(n - 1) :
                            queue'[Len(queue) + i] = EmptySlot(Back(queue).seq + i)
                      /\ queue'[Len(queue) + n] = AdmittedSlot(EmptySlot(packet.seq), packet)
            /\ queue = <<>> =>
                  queue' = <<AdmittedSlot(EmptySlot(packet.seq), packet)>>
      ]_vars

\* a duplicate has overwritten the pts of its slot, behind two appended slots
C24_Witness ==
    /\ op.name = "receive_audio" /\ ~panicked
    /\ pre.qlen = Len(queue)
    /\ \E i \in 2..Len(queue) :
         /\ queue[i].packet = Some(op.packet)
         /\ queue[i].pts # None
         /\ \E j \in 1..Len(queue) : queue[j].packet # None /\ queue[j].pts = None
    /\ \E i \in 2..Len(queue) : queue[i].packet = None

\* |real_ts - play_ts| of the RateAdjust, in frames
AbsOffset == Abs(Unwrap(rate_adj.real_ts) - Unwrap(rate_adj.play_ts))

\* a duration in frames is at least / less than a threshold in microseconds
AtLeastMicros(frames, micros) == frames * RateDen >= micros * RateNum
LessThanMicros(frames, micros) == frames * RateDen < micros * RateNum

After(frame_offset) == ~frame_offset.neg /\ ~IsZero(frame_offset.mag)

\* SAMPLE_RATE + frame_offset * 1_000_000 / 500_000 lies in the interval
\* of the clamp (frame_offset is then below 2^24)
InsideClamp(frame_offset) ==
    /\ Fits24(frame_offset.mag)
    /\ (SAMPLE_RATE * 98) \div 100 <= SAMPLE_RATE + DivT(ToInt(frame_offset) * SlewNum, SlewDen)
    /\ SAMPLE_RATE + DivT(ToInt(frame_offset) * SlewNum, SlewDen) <= SAMPLE_RATE * 2

\* C26: every rate adjusted_rate returns lies in
\* [SAMPLE_RATE * 98 / 100, SAMPLE_RATE * 2], equals
\* SAMPLE_RATE + frame_offset * 1_000_000 / 500_000 when that is inside the
\* interval, is above SAMPLE_RATE exactly when real_ts is after play_ts, and
\* the conversion to u32 never fails, for every signed frame offset.
C26_RateRange ==
    rate_op.name = "adjusted_rate" =>
        /\ rate_op.panic # "try_from"
        /\ rate_ret # None =>
            /\ (SAMPLE_RATE * 98) \div 100 <= Unwrap(rate_ret)
            /\ Unwrap(rate_ret) <= SAMPLE_RATE * 2
            /\ InsideClamp(rate_op.frame_offset) =>
                  Unwrap(rate_ret) =
                    SAMPLE_RATE + DivT(ToInt(rate_op.frame_offset) * SlewNum, SlewDen)
            /\ Unwrap(rate_ret) > SAMPLE_RATE <=> After(rate_op.frame_offset)

\* C28: receive_audio never panics on a packet it accepts: the dts
\* prediction (now - latency, plus the negated clock delta) neither
\* underflows nor fails its unwrap, the slot of index seq - front.seq
\* exists and its seq is the packet's.
C28_ReceiveAudioNeverPanics ==
    op.name = "receive_audio" => ~panicked

\* C29: once a stream exists the receiver never returns to having none,
\* and the stream's sid never decreases: it changes only when an audio
\* packet with a strictly greater sid is accepted.
C29_SidNeverGoesBack ==
    [][stream # None =>
        /\ stream' # None
        /\ Unwrap(stream').sid >= Unwrap(stream).sid
        /\ Unwrap(stream').sid # Unwrap(stream).sid =>
              /\ op'.name = "receive_audio"
              /\ op'.packet.flags = 0
              /\ op'.packet.sid = Unwrap(stream').sid
              /\ op'.packet.sid > Unwrap(stream).sid
      ]_vars

\* the running stream has dropped a packet of a session before its own
C29_Witness ==
    /\ op.name = "receive_audio"
    /\ op.packet.flags = 0
    /\ stream # None
    /\ op.packet.sid < Unwrap(stream).sid
    /\ pre.sid = Unwrap(stream).sid
    /\ Unwrap(stream).start_seq > 1

\* C30: between operations only the front entry of the queue can be partly
\* consumed: every other entry has consumed = 0 and the front has
\* consumed < ONE_PACKET, so that its buffer offset stays inside the packet
\* buffer.
C30_OnlyFrontPartlyConsumed ==
    /\ \A i \in 2..Len(queue) : queue[i].consumed = 0
    /\ queue # <<>> =>
        /\ 0 <= Front(queue).consumed
        /\ Front(queue).consumed < ONE_PACKET
        /\ as_buffer_offset(Front(queue).consumed) < SAMPLES_PER_PACKET

\* a fill has left the front partly consumed, with entries behind it
C30_Witness ==
    /\ op.name = "fill_stream_buffer"
    /\ Len(queue) >= 2
    /\ Front(queue).consumed > 0
    /\ \E i \in 1..Len(out) : out[i].seq # 0 /\ out[i].seq < Front(queue).seq

\* the packet makes prepare_stream replace the Stream: a greater sid, or a
\* seq that the gap test finds max_seq_gap or more past the back of the queue
ReplacesStream(packet) ==
    /\ stream # None
    /\ packet.flags = 0
    /\ \/ packet.sid > Unwrap(stream).sid
       \/ /\ packet.sid = Unwrap(stream).sid
          /\ u64_le(Unwrap(stream).start_seq, packet.seq)
          /\ queue # <<>>
          /\ u64_lt(Front(queue).seq, packet.seq)
          /\ seq_too_far(Back(queue), packet)

\* C31: once stream.sync is true it stays true until a sid takeover or a gap
\* reset replaces the Stream; an underrun does not clear it, and a fill in
\* sync goes straight to the copy phase: it copies from the front slot at
\* the start of the buffer, whatever the slot's pts.
C31_SyncIsSticky ==
    [][(stream # None /\ Unwrap(stream).sync) =>
        /\ stream' # None
        /\ Unwrap(stream').sync \/ (op'.name = "receive_audio" /\ ReplacesStream(op'.packet))
        /\ (op'.name = "fill_stream_buffer" /\ queue # <<>> /\ ~op'.slip) =>
              /\ out' # <<>>
              /\ out'[1].seq = Front(queue).seq
              /\ out'[1].off = 0
              /\ out'[1].len = Min(op'.len, SAMPLES_PER_PACKET
                                             - as_buffer_offset(Front(queue).consumed))
      ]_vars

\* after an underrun a fill in sync has played, from its first frame, a
\* slot that the sync phase would have skipped as late by a packet or more
C31_Witness ==
    /\ op.name = "fill_stream_buffer"
    /\ pre.sync /\ stream # None /\ Unwrap(stream).sync
    /\ out # <<>> /\ out[1].seq # 0 /\ out[1].pts # None
    /\ out[1].len = Min(op.len, SAMPLES_PER_PACKET)
    /\ op.pts - as_frames(Unwrap(out[1].pts)) >= ONE_PACKET

=============================================================================
